---- MODULE Spec2Model ----
(***************************************************************************)
(* A model of titan's object layer (db/zset.go, db/string.go), its ZSet    *)
(* command handlers (command/zset.go, carried in client.go), its           *)
(* expiration engine (db/expire.go) over a transactional key-value store,  *)
(* its rate limiter and the serve loop of a connection.                    *)
(*                                                                         *)
(* The store is a flat key space.  It is kept here as one record with a    *)
(* field per key family:                                                   *)
(*   meta    NS:D:M:K               -> object header (+ len / value)       *)
(*   data    NS:D:D:ID:member       -> encoded score                       *)
(*   score   NS:D:S:ID:score8:member-> NilValue                            *)
(*   expire  $sys:0:atNNNN:ts8:mkey -> ID                                  *)
(*   gc      data prefixes handed to the garbage collector                 *)
(* A transaction is a snapshot of the store plus the set of keys it wrote. *)
(*                                                                         *)
(* Specifications: SpecZSet and SpecRange run the ZSet commands on one     *)
(* key, SpecScore with scores of either sign; Spec adds the String         *)
(* operations, EXPIRE, the expire worker and the garbage collector;        *)
(* SpecReaper runs the commands that replace an object while its expiry is *)
(* pending against the expire worker; SpecRead reads a String whose expiry *)
(* passes; SpecString runs GETRANGE and INCRBY.  SpecLimiter runs two      *)
(* connections through the rate limiter (db/limitersMgr.go) beside its     *)
(* sync loop, and SpecServe the serve loop of one connection (client.go).  *)
(* SpecBurst runs commands larger than the burst of a bucket; SpecOneTitan *)
(* and SpecStable run the balance loop of the limiter on one and on two    *)
(* nodes; SpecDone splits a round of serve at readCommand; SpecLate runs   *)
(* ZADD on a sorted set past its expiry; SpecSplit splits meta keys.       *)
(***************************************************************************)
EXTENDS Integers, Sequences, FiniteSets, TLC

\* ------------------------------------------------------------------------
\* Bounds of the model
\* ------------------------------------------------------------------------
\* Largest value of the wall clock.
MaxClock == 2
\* Largest number of commands that pass through CheckLimit.
MaxCommands == 3
\* Largest number of commands a peer sends on its connection.
MaxInput == 4
\* Largest number of (score, member) pairs in one ZADD / members in one ZREM.
MaxPairs == 2
\* Largest expire argument of String.Set.
MaxExpire == 1
\* conf.BatchLimit: the number of expire keys one reaper tick may process.
BatchLimit == 2
\* ZRANGE / ZREVRANGE indices are drawn from -MaxIndex..MaxIndex.
MaxIndex == 3
\* Longest String value that Append may build.
MaxValLen == 2
\* Largest number that Incr may reach.
MaxNum == 2

\* User keys.  crc32("ns:<0,0,1>:M:k") % 256 = crc32("ns:<0,0,1>:M:ay") % 256
\* = 95, so both keys live in the expire bucket "0095".
Keys == {"k", "ay"}
Members == {"a", "b", "c"}
\* Object ids (UUIDs).  "" is the zero id of a String that was materialised
\* by GetString without a stored meta.
IDSeq == <<"id1", "id2", "id3">>
IDs == {IDSeq[i] : i \in 1..Len(IDSeq)}
ZeroID == ""
\* what UUID() yields in the model once every id of IDs is in use; a command
\* that would store it cannot run
NoID == "none"

Max(a, b) == IF a >= b THEN a ELSE b
Min(a, b) == IF a <= b THEN a ELSE b

\* ------------------------------------------------------------------------
\* float64, scaled down to a 4-bit IEEE-754 format: 1 sign bit, 2 exponent
\* bits, 1 mantissa bit.  Bit patterns 0..15; the unit of Mag is 0.5.
\*   0000 +0    0001 0.5   0010 1    0011 1.5   0100 2   0101 3
\*   0110 +Inf  0111 NaN   1xxx the negatives
\* ------------------------------------------------------------------------
SignBit == 8
AllBits == 15
Floats == 0..AllBits

Sign(f) == f \div SignBit
Abs(f) == f % SignBit
IsNaN(f) == Abs(f) = 7
IsInf(f) == Abs(f) = 6
\* the magnitude in units of 0.5 (finite values only)
Mag(f) == CASE Abs(f) = 0 -> 0
            [] Abs(f) = 1 -> 1
            [] Abs(f) = 2 -> 2
            [] Abs(f) = 3 -> 3
            [] Abs(f) = 4 -> 4
            [] Abs(f) = 5 -> 6
            [] OTHER -> 100
\* the signed numeric value; only for non-NaN
Num(f) == IF Sign(f) = 1 THEN 0 - Mag(f) ELSE Mag(f)
\* Go's == and < on float64
FloatEq(a, b) == ~IsNaN(a) /\ ~IsNaN(b) /\ Num(a) = Num(b)
FloatLess(a, b) == ~IsNaN(a) /\ ~IsNaN(b) /\ Num(a) < Num(b)

\* an encoding that flips the sign bit only
EncodeFloat64SignOnly(f) == IF Sign(f) = 0 THEN f + SignBit ELSE f - SignBit

\* Score encoding: sign bit 0 -> flip the sign bit; sign bit 1 -> flip all bits.
EncodeFloat64(f) == IF Sign(f) = 0 THEN f + SignBit ELSE AllBits - f
DecodeFloat64(e) == IF e >= SignBit THEN e - SignBit ELSE AllBits - e

\* strconv.ParseFloat(s, 64) on the score arguments used in the model.
\* ok = FALSE is a parse error.
ScoreArgs == {"0", "-0", "1", "1.0", "2", "nan", "inf", "abc"}
ParseFloat(s) == CASE s = "0" -> [ok |-> TRUE, f |-> 0]
                   [] s = "-0" -> [ok |-> TRUE, f |-> 8]
                   [] s = "0.5" -> [ok |-> TRUE, f |-> 1]
                   [] s = "1" -> [ok |-> TRUE, f |-> 2]
                   [] s = "1.0" -> [ok |-> TRUE, f |-> 2]
                   [] s = "1.5" -> [ok |-> TRUE, f |-> 3]
                   [] s = "2" -> [ok |-> TRUE, f |-> 4]
                   [] s = "3" -> [ok |-> TRUE, f |-> 5]
                   [] s = "-1" -> [ok |-> TRUE, f |-> 10]
                   [] s = "inf" -> [ok |-> TRUE, f |-> 6]
                   [] s = "-inf" -> [ok |-> TRUE, f |-> 14]
                   [] s = "nan" -> [ok |-> TRUE, f |-> 7]
                   [] s = "NaN" -> [ok |-> TRUE, f |-> 7]
                   [] s = "+Inf" -> [ok |-> TRUE, f |-> 6]
                   [] s = "-Inf" -> [ok |-> TRUE, f |-> 14]
                   [] s = "-0.5" -> [ok |-> TRUE, f |-> 9]
                   [] s = "-1.5" -> [ok |-> TRUE, f |-> 11]
                   [] s = "-2" -> [ok |-> TRUE, f |-> 12]
                   [] s = "-3" -> [ok |-> TRUE, f |-> 13]
                   [] OTHER -> [ok |-> FALSE, f |-> 0]

\* strconv.FormatFloat(f, 'f', -1, 64)
FormatMag(f) == CASE Abs(f) = 0 -> "0"
                  [] Abs(f) = 1 -> "0.5"
                  [] Abs(f) = 2 -> "1"
                  [] Abs(f) = 3 -> "1.5"
                  [] Abs(f) = 4 -> "2"
                  [] Abs(f) = 5 -> "3"
                  [] OTHER -> "Inf"
FormatNeg(f) == CASE Abs(f) = 0 -> "-0"
                  [] Abs(f) = 1 -> "-0.5"
                  [] Abs(f) = 2 -> "-1"
                  [] Abs(f) = 3 -> "-1.5"
                  [] Abs(f) = 4 -> "-2"
                  [] Abs(f) = 5 -> "-3"
                  [] OTHER -> "-Inf"
FormatFloat(f) == IF IsNaN(f) THEN "NaN"
                  ELSE IF f = 6 THEN "+Inf"
                  ELSE IF Sign(f) = 1 THEN FormatNeg(f)
                  ELSE FormatMag(f)


\* ------------------------------------------------------------------------
\* The key-value store and its transactions
\* ------------------------------------------------------------------------
EmptyMap == [x \in {} |-> 0]
Put(f, k, v) == [x \in (DOMAIN f) \cup {k} |-> IF x = k THEN v ELSE f[x]]
Drop(f, k) == [x \in (DOMAIN f) \ {k} |-> f[x]]

EmptyStore == [meta |-> EmptyMap, data |-> EmptyMap, score |-> {},
               expire |-> EmptyMap, gc |-> {}]
NoWrites == [meta |-> {}, data |-> {}, score |-> {}, expire |-> {}, gc |-> {}]

\* db.Begin: a transaction reads a snapshot of the store and buffers its writes
Begin(store) == [st |-> store, w |-> NoWrites]

TxnSetMeta(t, k, obj) ==
    [t EXCEPT !.st.meta = Put(@, k, obj), !.w.meta = @ \cup {k}]
TxnDeleteMeta(t, k) ==
    [t EXCEPT !.st.meta = Drop(@, k), !.w.meta = @ \cup {k}]
TxnSetData(t, dk, v) ==
    [t EXCEPT !.st.data = Put(@, dk, v), !.w.data = @ \cup {dk}]
TxnDeleteData(t, dk) ==
    [t EXCEPT !.st.data = Drop(@, dk), !.w.data = @ \cup {dk}]
TxnSetScore(t, sk) ==
    [t EXCEPT !.st.score = @ \cup {sk}, !.w.score = @ \cup {sk}]
TxnDeleteScore(t, sk) ==
    [t EXCEPT !.st.score = @ \ {sk}, !.w.score = @ \cup {sk}]
TxnSetExpire(t, ek, id) ==
    [t EXCEPT !.st.expire = Put(@, ek, id), !.w.expire = @ \cup {ek}]
TxnDeleteExpire(t, ek) ==
    [t EXCEPT !.st.expire = Drop(@, ek), !.w.expire = @ \cup {ek}]

\* the buffered writes of a transaction: its view on the keys it wrote
Buffered(t) ==
    [st |-> [meta |-> [k \in t.w.meta \cap DOMAIN t.st.meta |-> t.st.meta[k]],
             data |-> [k \in t.w.data \cap DOMAIN t.st.data |-> t.st.data[k]],
             score |-> t.w.score \cap t.st.score,
             expire |-> [k \in t.w.expire \cap DOMAIN t.st.expire |-> t.st.expire[k]],
             gc |-> t.w.gc],
     w |-> t.w]

\* two write sets touch a common key
Conflict(w1, w2) ==
    \/ w1.meta \cap w2.meta # {}
    \/ w1.data \cap w2.data # {}
    \/ w1.score \cap w2.score # {}
    \/ w1.expire \cap w2.expire # {}
    \/ w1.gc \cap w2.gc # {}
HasWrites(w) == w # NoWrites

\* Commit: the written keys take the transaction's value, the rest is kept
Commit(store, t) ==
    [meta |-> [k \in ((DOMAIN store.meta) \ t.w.meta)
                     \cup (t.w.meta \cap DOMAIN t.st.meta) |->
                 IF k \in t.w.meta THEN t.st.meta[k] ELSE store.meta[k]],
     data |-> [k \in ((DOMAIN store.data) \ t.w.data)
                     \cup (t.w.data \cap DOMAIN t.st.data) |->
                 IF k \in t.w.data THEN t.st.data[k] ELSE store.data[k]],
     score |-> (store.score \ t.w.score) \cup (t.w.score \cap t.st.score),
     expire |-> [k \in ((DOMAIN store.expire) \ t.w.expire)
                       \cup (t.w.expire \cap DOMAIN t.st.expire) |->
                 IF k \in t.w.expire THEN t.st.expire[k] ELSE store.expire[k]],
     gc |-> store.gc \cup t.w.gc]

\* ------------------------------------------------------------------------
\* Objects
\* ------------------------------------------------------------------------
ObjectString == "String"
ObjectZSet == "ZSet"
\* the object header with the type-specific payload (Len for a ZSet, Value
\* for a String); a Value is a sequence of characters
Object(type, id, expireAt, len, value) ==
    [Type |-> type, ID |-> id, ExpireAt |-> expireAt, Len |-> len, Value |-> value]

NoErr == "ok"
ErrTypeMismatch == "ErrTypeMismatch"
ErrFloat == "ERR value is not a valid float"
ErrInteger == "ERR value is not an integer or out of range"
ErrArgs == "ERR wrong number of arguments for 'zadd' command"
ErrKeyNotFound == "ErrKeyNotFound"

\* ------------------------------------------------------------------------
\* db/zset.go
\* ------------------------------------------------------------------------
\* a missing member value
NilScore == 0 - 1

\* GetZSet: load the meta, or start a new sorted set under a new id
GetZSet(t, key, uuid) ==
    IF key \notin DOMAIN t.st.meta
    THEN [err |-> NoErr, meta |-> Object(ObjectZSet, uuid, 0, 0, <<>>)]
    ELSE IF t.st.meta[key].Type # ObjectZSet
         THEN [err |-> ErrTypeMismatch, meta |-> t.st.meta[key]]
         ELSE [err |-> NoErr, meta |-> t.st.meta[key]]

\* ZSet.MGet: the stored value of each member, NilScore when missing
MGet(t, id, members) ==
    [i \in 1..Len(members) |->
        IF <<id, members[i]>> \in DOMAIN t.st.data
        THEN t.st.data[<<id, members[i]>>] ELSE NilScore]

\* ZSet.updateMeta
updateMeta(t, key, meta) == TxnSetMeta(t, key, meta)

\* ZAddLoop without the deletion of the old score-index entry
RECURSIVE ZAddLoopKeepOld(_, _, _, _, _, _, _)
ZAddLoopKeepOld(t, id, members, scores, oldValues, i, added) ==
    IF i > Len(members) THEN [t |-> t, added |-> added]
    ELSE LET found == oldValues[i] # NilScore
             bytesScore == EncodeFloat64(scores[i])
             t2 == TxnSetData(t, <<id, members[i]>>, bytesScore)
             t3 == TxnSetScore(t2, <<id, bytesScore, members[i]>>)
         IN IF found /\ FloatEq(scores[i], DecodeFloat64(oldValues[i]))
            THEN ZAddLoopKeepOld(t, id, members, scores, oldValues, i + 1, added)
            ELSE ZAddLoopKeepOld(t3, id, members, scores, oldValues, i + 1,
                                 IF found THEN added ELSE added + 1)

\* ZAddLoop that leaves every member that is already present alone
RECURSIVE ZAddLoopNX(_, _, _, _, _, _, _)
ZAddLoopNX(t, id, members, scores, oldValues, i, added) ==
    IF i > Len(members) THEN [t |-> t, added |-> added]
    ELSE LET bytesScore == EncodeFloat64(scores[i])
             t2 == TxnSetData(t, <<id, members[i]>>, bytesScore)
             t3 == TxnSetScore(t2, <<id, bytesScore, members[i]>>)
         IN IF oldValues[i] # NilScore
            THEN ZAddLoopNX(t, id, members, scores, oldValues, i + 1, added)
            ELSE ZAddLoopNX(t3, id, members, scores, oldValues, i + 1, added + 1)

\* the loop of ZSet.ZAdd over the members
RECURSIVE ZAddLoop(_, _, _, _, _, _, _)
ZAddLoop(t, id, members, scores, oldValues, i, added) ==
    IF i > Len(members) THEN [t |-> t, added |-> added]
    ELSE LET found == oldValues[i] # NilScore
             bytesScore == EncodeFloat64(scores[i])
             t1 == IF found
                   THEN TxnDeleteScore(t, <<id, oldValues[i], members[i]>>)
                   ELSE t
             t2 == TxnSetData(t1, <<id, members[i]>>, bytesScore)
             t3 == TxnSetScore(t2, <<id, bytesScore, members[i]>>)
         IN IF found /\ FloatEq(scores[i], DecodeFloat64(oldValues[i]))
            THEN ZAddLoop(t, id, members, scores, oldValues, i + 1, added)
            ELSE ZAddLoop(t3, id, members, scores, oldValues, i + 1,
                          IF found THEN added ELSE added + 1)

\* ZSet.ZAdd that counts every member of the call as added
ZSetZAddCountsAll(t, key, meta, members, scores) ==
    LET oldValues == IF meta.Len > 0 THEN MGet(t, meta.ID, members)
                     ELSE [i \in 1..Len(members) |-> NilScore]
        r == ZAddLoop(t, meta.ID, members, scores, oldValues, 1, 0)
        meta1 == [meta EXCEPT !.Len = @ + Len(members)]
    IN [t |-> updateMeta(r.t, key, meta1), added |-> Len(members)]

\* ZSet.ZAdd
ZSetZAdd(t, key, meta, members, scores) ==
    LET oldValues == IF meta.Len > 0 THEN MGet(t, meta.ID, members)
                     ELSE [i \in 1..Len(members) |-> NilScore]
        r == ZAddLoop(t, meta.ID, members, scores, oldValues, 1, 0)
        meta1 == [meta EXCEPT !.Len = @ + r.added]
    IN [t |-> updateMeta(r.t, key, meta1), added |-> r.added]

\* the score-index keys of one object in the byte order of the iterator:
\* prefix:score8:member is ordered by the encoded score, then by the member
MemberRank(m) == CASE m = "a" -> 1 [] m = "b" -> 2 [] m = "c" -> 3 [] OTHER -> 4
ScoreKeyLess(x, y) ==
    \/ x[2] < y[2]
    \/ x[2] = y[2] /\ MemberRank(x[3]) < MemberRank(y[3])
RECURSIVE SortScoreKeys(_)
SortScoreKeys(S) ==
    IF S = {} THEN <<>>
    ELSE LET x == CHOOSE x \in S : \A y \in S \ {x} : ScoreKeyLess(x, y)
         IN <<x>> \o SortScoreKeys(S \ {x})
\* txn.t.Iter(scorePrefix, nil) while the key has the prefix
IterScore(t, id) == SortScoreKeys({sk \in t.st.score : sk[1] = id})

Reverse(s) == [i \in 1..Len(s) |-> s[Len(s) + 1 - i]]

\* the scan loop with an off-by-one start (i > start)
RECURSIVE RangeLoopSkipFirst(_, _, _, _, _, _, _)
RangeLoopSkipFirst(it, i, start, stop, withScore, positiveOrder, items) ==
    IF ~(i <= stop /\ i + 1 <= Len(it)) THEN items
    ELSE LET member == it[i + 1][3]
             val == FormatFloat(DecodeFloat64(it[i + 1][2]))
             items1 == IF i > start
                       THEN IF withScore
                            THEN IF positiveOrder
                                 THEN items \o <<member, val>>
                                 ELSE items \o <<val, member>>
                            ELSE Append(items, member)
                       ELSE items
         IN RangeLoopSkipFirst(it, i + 1, start, stop, withScore, positiveOrder, items1)

\* the scan loop of ZAnyOrderRange: i is the 0-based position of the iterator
RECURSIVE RangeLoop(_, _, _, _, _, _, _)
RangeLoop(it, i, start, stop, withScore, positiveOrder, items) ==
    IF ~(i <= stop /\ i + 1 <= Len(it)) THEN items
    ELSE LET member == it[i + 1][3]
             val == FormatFloat(DecodeFloat64(it[i + 1][2]))
             items1 == IF i >= start
                       THEN IF withScore
                            THEN IF positiveOrder
                                 THEN items \o <<member, val>>
                                 ELSE items \o <<val, member>>
                            ELSE Append(items, member)
                       ELSE items
         IN RangeLoop(it, i + 1, start, stop, withScore, positiveOrder, items1)

\* ZAnyOrderRange that scans [start, stop] itself in reverse order too
ZAnyOrderRangeNoMirror(t, meta, start0, stop0, withScore, positiveOrder) ==
    LET stop1 == IF stop0 < 0 THEN meta.Len + stop0
                 ELSE IF stop0 >= meta.Len THEN meta.Len - 1 ELSE stop0
        start1 == IF start0 < 0 THEN Max(meta.Len + start0, 0) ELSE start0
        items == RangeLoop(IterScore(t, meta.ID), 0, start1, stop1,
                           withScore, positiveOrder, <<>>)
    IN IF stop0 < 0 /\ stop1 < 0 THEN <<>>
       ELSE IF start1 > stop1 \/ start1 >= meta.Len THEN <<>>
       ELSE IF positiveOrder THEN items ELSE Reverse(items)

\* ZSet.ZAnyOrderRange
ZAnyOrderRange(t, meta, start0, stop0, withScore, positiveOrder) ==
    LET stop1 == IF stop0 < 0 THEN meta.Len + stop0
                 ELSE IF stop0 >= meta.Len THEN meta.Len - 1 ELSE stop0
        start1 == IF start0 < 0 THEN Max(meta.Len + start0, 0) ELSE start0
        start2 == IF positiveOrder THEN start1 ELSE meta.Len - 1 - stop1
        stop2 == IF positiveOrder THEN stop1 ELSE meta.Len - 1 - start1
        items == RangeLoop(IterScore(t, meta.ID), 0, start2, stop2,
                           withScore, positiveOrder, <<>>)
    IN IF stop0 < 0 /\ stop1 < 0 THEN <<>>
       ELSE IF start1 > stop1 \/ start1 >= meta.Len THEN <<>>
       ELSE IF positiveOrder THEN items ELSE Reverse(items)

\* unExpireAt
unExpireAt(t, key, expireAt) ==
    IF expireAt = 0 THEN t ELSE TxnDeleteExpire(t, <<expireAt, key>>)

\* the loop of ZSet.ZRem over the members
RECURSIVE ZRemLoop(_, _, _, _, _, _)
ZRemLoop(t, id, members, scores, i, deleted) ==
    IF i > Len(members) THEN [t |-> t, deleted |-> deleted]
    ELSE IF scores[i] = NilScore
         THEN ZRemLoop(t, id, members, scores, i + 1, deleted)
         ELSE LET t1 == TxnDeleteScore(t, <<id, scores[i], members[i]>>)
                  t2 == TxnDeleteData(t1, <<id, members[i]>>)
              IN ZRemLoop(t2, id, members, scores, i + 1, deleted + 1)

\* ZSet.ZRem
ZSetZRem(t, key, meta, members) ==
    LET scores == MGet(t, meta.ID, members)
        r == ZRemLoop(t, meta.ID, members, scores, 1, 0)
        meta1 == [meta EXCEPT !.Len = @ - r.deleted]
    IN IF meta1.Len = 0
       THEN [t |-> IF meta1.ExpireAt > 0
                   THEN unExpireAt(TxnDeleteMeta(r.t, key), key, meta1.ExpireAt)
                   ELSE TxnDeleteMeta(r.t, key),
             deleted |-> r.deleted]
       ELSE [t |-> updateMeta(r.t, key, meta1), deleted |-> r.deleted]

\* ZSet.ZScore: the formatted score, "" (nil) when the member is missing
NilBulk == ""
ZSetZScore(t, meta, member) ==
    IF <<meta.ID, member>> \in DOMAIN t.st.data
    THEN FormatFloat(DecodeFloat64(t.st.data[<<meta.ID, member>>]))
    ELSE NilBulk


\* ------------------------------------------------------------------------
\* command/zset.go: the ZSet command handlers.  A handler returns the
\* transaction after its writes, its reply and whether it failed (a failed
\* command is rolled back).
\* ------------------------------------------------------------------------
Integer(n) == [kind |-> "int", n |-> n, s |-> "", items |-> <<>>]
Error(e) == [kind |-> "err", n |-> 0, s |-> e, items |-> <<>>]
BytesArrayOnce(items) == [kind |-> "array", n |-> 0, s |-> "", items |-> items]
BulkString(b) == [kind |-> "bulk", n |-> 0, s |-> b, items |-> <<>>]
NullBulkString == [kind |-> "nil", n |-> 0, s |-> "", items |-> <<>>]
NoReply == [kind |-> "none", n |-> 0, s |-> "", items |-> <<>>]

Elems(s) == {s[i] : i \in 1..Len(s)}

\* the parsing loop without the de-duplication: the last pair of a member wins
RECURSIVE ZAddArgsNoDedup(_, _, _, _)
ZAddArgsNoDedup(kvs, i, members, scores) ==
    IF ~(i < Len(kvs) - 1) THEN [err |-> NoErr, members |-> members, scores |-> scores]
    ELSE LET member == kvs[i + 2]
             score == ParseFloat(kvs[i + 1])
         IN IF ~score.ok \/ IsNaN(score.f)
            THEN [err |-> ErrFloat, members |-> members, scores |-> scores]
            ELSE ZAddArgsNoDedup(kvs, i + 2, Append(members, member),
                                 Append(scores, score.f))

\* the de-duplication and parsing loop of the ZAdd handler; i is the 0-based
\* index of the score of the current pair in kvs
RECURSIVE ZAddArgs(_, _, _, _)
ZAddArgs(kvs, i, members, scores) ==
    IF ~(i < Len(kvs) - 1) THEN [err |-> NoErr, members |-> members, scores |-> scores]
    ELSE LET member == kvs[i + 2]
             score == ParseFloat(kvs[i + 1])
         IN IF member \in Elems(members)
            THEN ZAddArgs(kvs, i + 2, members, scores)
            ELSE IF ~score.ok \/ IsNaN(score.f)
                 THEN [err |-> ErrFloat, members |-> members, scores |-> scores]
                 ELSE ZAddArgs(kvs, i + 2, Append(members, member),
                               Append(scores, score.f))

\* ZAdd
ZAdd(t, key, kvs, uuid) ==
    LET a == ZAddArgs(kvs, 0, <<>>, <<>>)
        z == GetZSet(t, key, uuid)
        r == ZSetZAdd(t, key, z.meta, a.members, a.scores)
    IN IF Len(kvs) % 2 # 0 THEN [t |-> t, reply |-> Error(ErrArgs), ok |-> FALSE]
       ELSE IF a.err # NoErr THEN [t |-> t, reply |-> Error(a.err), ok |-> FALSE]
       ELSE IF z.err # NoErr THEN [t |-> t, reply |-> Error(z.err), ok |-> FALSE]
       ELSE [t |-> r.t, reply |-> Integer(r.added), ok |-> TRUE]

\* zAnyOrderRange (ZRange: positiveOrder, ZRevRange: not positiveOrder)
zAnyOrderRange(t, key, start, stop, withScore, positiveOrder, uuid) ==
    LET z == GetZSet(t, key, uuid)
    IN IF z.err # NoErr THEN [t |-> t, reply |-> Error(z.err), ok |-> FALSE]
       ELSE IF z.meta.Len = 0 THEN [t |-> t, reply |-> BytesArrayOnce(<<>>), ok |-> TRUE]
       ELSE [t |-> t, ok |-> TRUE,
             reply |-> BytesArrayOnce(ZAnyOrderRange(t, z.meta, start, stop,
                                                     withScore, positiveOrder))]

\* the de-duplication loop of the ZRem handler
RECURSIVE ZRemArgs(_, _, _)
ZRemArgs(args, i, members) ==
    IF i > Len(args) THEN members
    ELSE IF args[i] \in Elems(members) THEN ZRemArgs(args, i + 1, members)
         ELSE ZRemArgs(args, i + 1, Append(members, args[i]))

\* ZRem
ZRem(t, key, args, uuid) ==
    LET z == GetZSet(t, key, uuid)
        r == ZSetZRem(t, key, z.meta, ZRemArgs(args, 1, <<>>))
    IN IF z.err # NoErr THEN [t |-> t, reply |-> Error(z.err), ok |-> FALSE]
       ELSE IF z.meta.Len = 0 THEN [t |-> t, reply |-> Integer(0), ok |-> TRUE]
       ELSE [t |-> r.t, reply |-> Integer(r.deleted), ok |-> TRUE]

\* ZCard
ZCard(t, key, uuid) ==
    LET z == GetZSet(t, key, uuid)
    IN IF z.err # NoErr THEN [t |-> t, reply |-> Error(z.err), ok |-> FALSE]
       ELSE [t |-> t, reply |-> Integer(z.meta.Len), ok |-> TRUE]

\* ZScore
ZScore(t, key, member, uuid) ==
    LET z == GetZSet(t, key, uuid)
        score == ZSetZScore(t, z.meta, member)
    IN IF z.err # NoErr THEN [t |-> t, reply |-> Error(z.err), ok |-> FALSE]
       ELSE IF z.meta.Len = 0 THEN [t |-> t, reply |-> NullBulkString, ok |-> TRUE]
       ELSE IF score = NilBulk THEN [t |-> t, reply |-> NullBulkString, ok |-> TRUE]
       ELSE [t |-> t, reply |-> BulkString(score), ok |-> TRUE]


\* ------------------------------------------------------------------------
\* db/expire.go: the expire index
\* ------------------------------------------------------------------------
\* expireKey: $sys:0:at<bucket>:<ts>:<mkey>; every key of the model is in the
\* same bucket, so the key is the pair of the timestamp and the meta key
expireKey(key, ts) == <<ts, key>>

\* expireAt
expireAt(t, key, objID, oldAt, newAt) ==
    LET t1 == IF oldAt > 0 THEN TxnDeleteExpire(t, expireKey(key, oldAt)) ELSE t
    IN IF newAt > 0 THEN TxnSetExpire(t1, expireKey(key, newAt), objID) ELSE t1

\* IsExpired
IsExpired(obj, now) == ~(obj.ExpireAt = 0 \/ obj.ExpireAt > now)

\* ------------------------------------------------------------------------
\* db/string.go
\* ------------------------------------------------------------------------
\* a String in memory: the meta and whether Meta.Value is nil
ZeroString == [Meta |-> Object(ObjectString, ZeroID, 0, 0, <<>>), isNil |-> TRUE]

\* String.decode without the test of the expiry
decodeKeepsExpired(b, now) ==
    IF b.Type = ObjectZSet THEN [Meta |-> b, isNil |-> FALSE]
    ELSE [Meta |-> b, isNil |-> Len(b.Value) = 0]

\* String.decode: an expired meta leaves the object zero
decode(b, now) ==
    IF b.ExpireAt # 0 /\ b.ExpireAt < now THEN ZeroString
    ELSE IF b.Type = ObjectZSet
         THEN [Meta |-> b, isNil |-> FALSE]
         ELSE [Meta |-> b, isNil |-> Len(b.Value) = 0]

\* GetString
GetString(t, key, now) ==
    IF key \notin DOMAIN t.st.meta THEN [err |-> NoErr, str |-> ZeroString]
    ELSE LET str == decode(t.st.meta[key], now)
         IN IF str.Meta.Type # ObjectString
            THEN [err |-> ErrTypeMismatch, str |-> str]
            ELSE [err |-> NoErr, str |-> str]

\* NewString
NewString(uuid) == [Meta |-> Object(ObjectString, uuid, 0, 0, <<>>), isNil |-> TRUE]

\* String.Exist
Exist(str) == ~str.isNil

\* String.Get
StringGet(str) ==
    IF ~Exist(str) THEN [err |-> ErrKeyNotFound, val |-> <<>>]
    ELSE [err |-> NoErr, val |-> str.Meta.Value]

\* String.Set: expire <= 0 stands for "no expire argument or expire[0] <= 0"
StringSet(t, key, str, val, expire, now) ==
    LET newAt == IF expire > 0 THEN now + expire ELSE 0
        t1 == IF expire > 0
              THEN expireAt(t, key, str.Meta.ID, str.Meta.ExpireAt, newAt)
              ELSE unExpireAt(t, key, str.Meta.ExpireAt)
        meta1 == [str.Meta EXCEPT !.ExpireAt = newAt, !.Value = val]
    IN TxnSetMeta(t1, key, meta1)

\* String.Append
StringAppend(t, key, str, value) ==
    LET meta1 == [str.Meta EXCEPT !.Value = @ \o value, !.ExpireAt = 0]
    IN [t |-> TxnSetMeta(t, key, meta1), len |-> Len(meta1.Value)]

\* String.GetSet
StringGetSet(t, key, str, value, now) ==
    [t |-> StringSet(t, key, str, value, 0, now), old |-> str.Meta.Value,
     oldNil |-> str.isNil]

\* strconv.ParseInt(s, 10, 64) and strconv.FormatInt(n, 10) on decimal strings
Digits == <<"0", "1", "2", "3", "4", "5", "6", "7", "8", "9">>
IsDigit(c) == \E d \in 1..10 : Digits[d] = c
DigitVal(c) == (CHOOSE d \in 1..10 : Digits[d] = c) - 1
RECURSIVE DigitsVal(_, _)
DigitsVal(s, acc) ==
    IF s = <<>> THEN acc ELSE DigitsVal(Tail(s), acc * 10 + DigitVal(Head(s)))
AllDigits(s) == s # <<>> /\ \A i \in 1..Len(s) : IsDigit(s[i])
\* int64, scaled down to IntBits bits: MinInt64..MaxInt64, and + that wraps
IntBits == 4
MaxInt64 == 2 ^ (IntBits - 1) - 1
MinInt64 == 0 - 2 ^ (IntBits - 1)
WrapInt64(n) == ((n - MinInt64) % (2 ^ IntBits)) + MinInt64
\* the syntax of a decimal integer; the value may be out of range
ParseDecimal(s) ==
    IF AllDigits(s) THEN [ok |-> TRUE, v |-> DigitsVal(s, 0)]
    ELSE IF s # <<>> /\ Head(s) \in {"-", "+"} /\ AllDigits(Tail(s))
         THEN [ok |-> TRUE,
               v |-> IF Head(s) = "-" THEN 0 - DigitsVal(Tail(s), 0)
                     ELSE DigitsVal(Tail(s), 0)]
         ELSE [ok |-> FALSE, v |-> 0]
\* a value outside int64 is a range error
ParseInt(s) ==
    IF ParseDecimal(s).ok /\ ParseDecimal(s).v >= MinInt64
                         /\ ParseDecimal(s).v <= MaxInt64
    THEN ParseDecimal(s) ELSE [ok |-> FALSE, v |-> 0]
RECURSIVE FormatNat(_)
FormatNat(n) ==
    IF n < 10 THEN <<Digits[n + 1]>>
    ELSE Append(FormatNat(n \div 10), Digits[(n % 10) + 1])
FormatInt(n) == IF n < 0 THEN <<"-">> \o FormatNat(0 - n) ELSE FormatNat(n)

\* String.GetRange on a Value slice of capacity cap >= len: the bytes of
\* Value[start:][:end+1]; slicing past the capacity panics, and the bytes
\* between the length and the capacity are not the value's ("?")
GetRange(str, start, end, cap) ==
    LET vlen == Len(str.Meta.Value)
        end1 == IF end < 0 THEN vlen + end ELSE end
        start1 == IF start < 0 THEN vlen + start ELSE start
        end2 == IF end1 > vlen THEN vlen ELSE end1
        start2 == IF start1 < 0 THEN 0 ELSE start1
        array == str.Meta.Value \o [i \in 1..(cap - vlen) |-> "?"]
    IN IF start1 > end1 \/ start1 > vlen \/ end1 < 0
       THEN [panic |-> FALSE, val |-> <<>>]
       ELSE IF end2 + 1 > cap - start2 THEN [panic |-> TRUE, val |-> <<>>]
            ELSE [panic |-> FALSE,
                  val |-> SubSeq(array, start2 + 1, start2 + end2 + 1)]

\* String.Incr
StringIncr(t, key, str, delta, now) ==
    LET v == ParseInt(str.Meta.Value)
        sum == IF str.isNil THEN delta ELSE WrapInt64(v.v + delta)
    IN IF ~str.isNil /\ ~v.ok THEN [err |-> ErrInteger, t |-> t, n |-> 0]
       ELSE [err |-> NoErr, n |-> sum,
             t |-> StringSet(t, key, str, FormatInt(sum), 0, now)]

\* ------------------------------------------------------------------------
\* db/expire.go: the reaper
\* ------------------------------------------------------------------------
\* gc: hand a data prefix to the garbage collector
gc(t, id) == [t EXCEPT !.st.gc = @ \cup {id}, !.w.gc = @ \cup {id}]

\* gcDataKey
gcDataKey(t, id) == gc(t, id)

\* doExpire without the comparison of the entry's id with the object's id
doExpireNoIdCheck(t, key, id, ts) ==
    IF key \notin DOMAIN t.st.meta THEN gcDataKey(t, id)
    ELSE LET obj == t.st.meta[key]
         IN IF obj.ExpireAt # ts THEN t
            ELSE IF obj.Type = ObjectString THEN TxnDeleteMeta(t, key)
            ELSE gcDataKey(TxnDeleteMeta(t, key), id)

\* doExpire without the comparison of the entry's timestamp with the object's
\* ExpireAt
doExpireNoTsCheck(t, key, id, ts) ==
    IF key \notin DOMAIN t.st.meta THEN gcDataKey(t, id)
    ELSE LET obj == t.st.meta[key]
         IN IF obj.ID # id THEN gcDataKey(t, id)
            ELSE IF obj.Type = ObjectString THEN TxnDeleteMeta(t, key)
            ELSE gcDataKey(TxnDeleteMeta(t, key), id)

\* doExpire.  Ids are atoms of one length, so the cut of a longer entry value
\* to the length of obj.ID leaves the value as it is.
doExpire(t, key, id, ts) ==
    IF key \notin DOMAIN t.st.meta THEN gcDataKey(t, id)
    ELSE LET obj == t.st.meta[key]
         IN IF obj.ID # id THEN gcDataKey(t, id)
            ELSE IF obj.ExpireAt # ts THEN t
            ELSE IF obj.Type = ObjectString THEN TxnDeleteMeta(t, key)
            ELSE gcDataKey(TxnDeleteMeta(t, key), id)

\* Keys as byte strings: sequences of byte values; 58 is ':' and 77 is 'M'.
\* bytes.Index for a single byte, -1 when the byte is absent
Index(b, c) ==
    IF \A i \in 1..Len(b) : b[i] # c THEN 0 - 1
    ELSE (CHOOSE i \in 1..Len(b) :
             b[i] = c /\ \A j \in 1..(i - 1) : b[j] # c) - 1
\* the slice b[lo:hi]
Slice(b, lo, hi) == SubSeq(b, lo + 1, hi)

\* DBID.Bytes and toDBID: the db id as 3 bytes, big-endian
DBIDBytes(id) == <<id \div 65536, (id \div 256) % 256, id % 256>>
toDBID(v) == v[1] * 65536 + v[2] * 256 + v[3]

\* MetaKey: {namespace}:{id}:M:{key}
MetaKey(namespace, id, key) ==
    namespace \o <<58>> \o DBIDBytes(id) \o <<58, 77, 58>> \o key

\* splitMetaKey
splitMetaKey(key) ==
    LET idx == Index(key, 58)
    IN [namespace |-> Slice(key, 0, idx),
        id |-> toDBID(Slice(key, idx + 1, idx + 4)),
        rawkey |-> Slice(key, idx + 6, Len(key))]

\* the expire keys in the byte order of the iterator: by timestamp, then by
\* meta key
KeyRank(k) == CASE k = "ay" -> 1 [] k = "k" -> 2 [] OTHER -> 3
ExpireKeyLess(x, y) ==
    \/ x[1] < y[1]
    \/ x[1] = y[1] /\ KeyRank(x[2]) < KeyRank(y[2])
RECURSIVE SortExpireKeys(_)
SortExpireKeys(S) ==
    IF S = {} THEN <<>>
    ELSE LET x == CHOOSE x \in S : \A y \in S \ {x} : ExpireKeyLess(x, y)
         IN <<x>> \o SortExpireKeys(S \ {x})
\* txn.t.Iter with a start prefix behind the entries of lastExpireEndTs
IterExpirePastLast(t, lastExpireEndTs, now) ==
    SortExpireKeys({ek \in DOMAIN t.st.expire :
                       /\ ek[1] < now + 1
                       /\ lastExpireEndTs > 0 => ek[1] > lastExpireEndTs})

\* txn.t.Iter(startPrefix, endPrefix): [prefix:<last>:, prefix:<now+1>)
IterExpire(t, lastExpireEndTs, now) ==
    SortExpireKeys({ek \in DOMAIN t.st.expire :
                       /\ ek[1] < now + 1
                       /\ lastExpireEndTs > 0 => ek[1] >= lastExpireEndTs})

\* the scan loop of runExpire
RECURSIVE ExpireLoop(_, _, _, _, _, _)
ExpireLoop(t, it, i, limit, now, thisExpireEndTs) ==
    IF ~(i <= Len(it) /\ limit > 0) THEN [t |-> t, limit |-> limit, ts |-> thisExpireEndTs]
    ELSE LET rawKey == it[i]
             ts == rawKey[1]
             t1 == doExpire(t, rawKey[2], t.st.expire[rawKey], ts)
             t2 == TxnDeleteExpire(t1, rawKey)
         IN IF ts > now THEN [t |-> t, limit |-> limit, ts |-> thisExpireEndTs]
            ELSE ExpireLoop(t2, it, i + 1, limit - 1, now, ts)

\* runExpire up to its commit: the transaction to commit and the value that
\* runExpire returns
runExpire(store, batchLimit, lastExpireEndTs, now) ==
    LET t == Begin(store)
        r == ExpireLoop(t, IterExpire(t, lastExpireEndTs, now), 1, batchLimit, now, 0)
    IN [t |-> r.t,
        thisExpireEndTs |-> IF r.limit = batchLimit THEN now ELSE r.ts]


\* ------------------------------------------------------------------------
\* db/limitersMgr.go: the rate limiter
\* ------------------------------------------------------------------------
ALL_NAMESPACE == "*"
Namespaces == {"n1", "n2"}
Conns == {"c1", "c2"}
\* an unlocked sync.Mutex
NoConn == ""

\* limiterName: namespace@command
LimiterName(namespace, cmdName) == <<namespace, cmdName>>
getAllmatchLimiterName(limiterName) == <<ALL_NAMESPACE, limiterName[2]>>

\* LimitData; (*LimitData)(nil) and an unset limit are both (0, 0)
LimitData(limit, burst) == [limit |-> limit, burst |-> burst]
NilLimitData == LimitData(0, 0)
Configured(d) == d.limit > 0 /\ d.burst > 0

\* rate.Limiter: a token bucket of `limit` tokens per tick of the clock; a
\* new limiter starts full
NilLimiter == [limit |-> 0, burst |-> 0, tokens |-> 0, last |-> 0]
NewLimiter(limit, burst) ==
    [limit |-> limit, burst |-> burst, tokens |-> burst, last |-> 0]
advance(l, now) == Min(l.burst, l.tokens + (now - l.last) * l.limit)
SetLimit(l, now, newLimit) ==
    [l EXCEPT !.tokens = advance(l, now), !.last = now, !.limit = newLimit]
\* ReserveN: the reservation is refused when n exceeds the burst; else the
\* tokens are taken and the delay is the time the bucket needs to refill
ReserveN(l, now, n) ==
    IF n > l.burst THEN [ok |-> FALSE, delay |-> 0, limiter |-> l]
    ELSE LET tokens == advance(l, now) - n
         IN [ok |-> TRUE,
             delay |-> IF tokens < 0
                       THEN ((0 - tokens) + l.limit - 1) \div l.limit ELSE 0,
             limiter |-> [l EXCEPT !.tokens = tokens, !.last = now]]

\* weights are counted in thousandths
MAXIMUM_WEIGHT == 1000
MINIMUM_WEIGHT == 100
\* conf.UsageToDivide and conf.UsageToMultiply, in tenths, and
\* conf.WeightChangeFactor, which is any number above 1: with 10 a weight
\* goes from MAXIMUM_WEIGHT to MINIMUM_WEIGHT in one step
UsageToDivide == 6
UsageToMultiply == 9
WeightChangeFactor == 10

\* a share of the global limit: the fraction num/den in lowest terms
RECURSIVE GCD(_, _)
GCD(a, b) == IF b = 0 THEN a ELSE GCD(b, a % b)
Percent(num, den) == <<num \div GCD(num, den), den \div GCD(num, den)>>
\* conf.InitialPercent = 1
InitialPercent == Percent(1, 1)
\* float64(limit) * percent as the rate of a bucket; a bucket holds whole
\* tokens, and its rate is taken up to the next whole number of tokens
LocalLimit(limit, percent) ==
    (limit * percent[1] + percent[2] - 1) \div percent[2]

\* LimiterWrapper and CommandLimiter; ticks counts the balance ticks that
\* began on the limiter since its limits last changed
EmptyLw == [limiter |-> NilLimiter, globalLimit |-> 0, lock |-> NoConn,
            localPercent |-> InitialPercent]
NilCl == [isNil |-> TRUE, qpsLw |-> EmptyLw, rateLw |-> EmptyLw,
          lock |-> NoConn, skipBalance |-> FALSE,
          totalCommandsCount |-> 0, totalCommandsSize |-> 0,
          weight |-> MAXIMUM_WEIGHT, ticks |-> 0]

\* an updateLimit that sets the rate of a bucket it keeps to the global limit
LimiterWrapperUpdateLimitGlobal(lw, newLimit, newBurst, now) ==
    LET localLimit == LocalLimit(newLimit, lw.localPercent)
        limiter ==
            IF newLimit > 0 /\ newBurst > 0
            THEN IF lw.limiter # NilLimiter /\ lw.limiter.burst = newBurst
                 THEN (IF lw.globalLimit # newLimit
                       THEN SetLimit(lw.limiter, now, newLimit)
                       ELSE lw.limiter)
                 ELSE NewLimiter(localLimit, newBurst)
            ELSE NilLimiter
    IN [lw |-> [lw EXCEPT !.limiter = limiter, !.globalLimit = newLimit],
        changed |-> lw.globalLimit # newLimit \/ lw.limiter.burst # newBurst]

LimiterWrapperUpdateLimit(lw, newLimit, newBurst, now) ==
    LET burst == lw.limiter.burst
        changed == lw.globalLimit # newLimit \/ burst # newBurst
        localLimit == LocalLimit(newLimit, lw.localPercent)
        limiter ==
            IF newLimit > 0 /\ newBurst > 0
            THEN IF lw.limiter # NilLimiter
                 THEN IF lw.limiter.burst # newBurst
                      THEN NewLimiter(localLimit, newBurst)
                      ELSE IF lw.globalLimit # newLimit
                           THEN SetLimit(lw.limiter, now, localLimit)
                           ELSE lw.limiter
                 ELSE NewLimiter(localLimit, newBurst)
            ELSE NilLimiter
    IN [lw |-> [lw EXCEPT !.limiter = limiter, !.globalLimit = newLimit],
        changed |-> changed]

updateLimit(cl, qps, rate, now) ==
    LET q == LimiterWrapperUpdateLimit(cl.qpsLw, qps.limit, qps.burst, now)
        r == LimiterWrapperUpdateLimit(cl.rateLw, rate.limit, rate.burst, now)
    IN [cl EXCEPT !.qpsLw = q.lw, !.rateLw = r.lw,
                  !.skipBalance = IF q.changed \/ r.changed THEN TRUE ELSE @,
                  !.ticks = IF q.changed \/ r.changed THEN 0 ELSE @]

\* NewCommandLimiter for a node whose conf.InitialPercent is initialPercent
NewCommandLimiterOf(qps, rate, initialPercent, now) ==
    IF ~Configured(qps) /\ ~Configured(rate) THEN NilCl
    ELSE IF initialPercent[1] <= 0 THEN NilCl
    ELSE LET lw == [EmptyLw EXCEPT !.localPercent = initialPercent]
         IN [NilCl EXCEPT
               !.isNil = FALSE, !.skipBalance = TRUE,
               !.qpsLw = LimiterWrapperUpdateLimit(lw, qps.limit,
                                                   qps.burst, now).lw,
               !.rateLw = LimiterWrapperUpdateLimit(lw, rate.limit,
                                                    rate.burst, now).lw]

NewCommandLimiter(qps, rate, now) ==
    NewCommandLimiterOf(qps, rate, InitialPercent, now)

\* sync.Map.LoadOrStore
LoadOrStore(m, k, v) == IF k \in DOMAIN m THEN m ELSE Put(m, k, v)

\* getLimit: the limit and burst stored under qps:<name> or rate:<name>, and
\* (0, 0) when the key is absent or its value does not parse
getLimit(l, limiterName, isQps) ==
    l.kv[<<IF isQps THEN "qps" ELSE "rate", limiterName>>]

\* init reads the limits of the name from the store (the two getLimit calls)
MaxFetch == 2
Fetched(l, limiterName) ==
    Put(l.fetches, limiterName,
        IF limiterName \in DOMAIN l.fetches
        THEN (IF l.fetches[limiterName] < MaxFetch
              THEN l.fetches[limiterName] + 1 ELSE MaxFetch)
        ELSE 1)

\* an init that does not look at the registry again under l.lock
initNoRecheck(l, limiterName, now) ==
    LET allmatchLimiterName == getAllmatchLimiterName(limiterName)
        qps == getLimit(l, limiterName, TRUE)
        rate == getLimit(l, limiterName, FALSE)
        newCl == IF Configured(qps) \/ Configured(rate)
                 THEN NewCommandLimiter(qps, rate, now) ELSE NilCl
        limiters == LoadOrStore(l.limiters, limiterName, newCl)
    IN [l |-> [l EXCEPT
                 !.qpsAllmatchLimit =
                     LoadOrStore(@, allmatchLimiterName, NilLimitData),
                 !.rateAllmatchLimit =
                     LoadOrStore(@, allmatchLimiterName, NilLimitData),
                 !.limiters = limiters,
                 !.fetches = Fetched(l, limiterName)],
        cl |-> limiters[limiterName]]

\* LimitersMgr.init, under l.lock from its first line to its return: the
\* limiter of a name that is not registered yet
init(l, limiterName, now) ==
    IF limiterName \in DOMAIN l.limiters
    THEN [l |-> l, cl |-> l.limiters[limiterName]]
    ELSE LET allmatchLimiterName == getAllmatchLimiterName(limiterName)
             qps == getLimit(l, limiterName, TRUE)
             rate == getLimit(l, limiterName, FALSE)
             newCl == IF Configured(qps) \/ Configured(rate)
                      THEN NewCommandLimiter(qps, rate, now) ELSE NilCl
         IN [l |-> [l EXCEPT
                      !.qpsAllmatchLimit =
                          LoadOrStore(@, allmatchLimiterName, NilLimitData),
                      !.rateAllmatchLimit =
                          LoadOrStore(@, allmatchLimiterName, NilLimitData),
                      !.limiters = LoadOrStore(@, limiterName, newCl),
                      !.fetches = Fetched(l, limiterName)],
             cl |-> newCl]

\* runSyncNewLimit, first loop: the wildcard limits are read again
SyncAllmatch(l, m, isQps) ==
    [k \in DOMAIN m |->
        IF Configured(getLimit(l, k, isQps)) THEN getLimit(l, k, isQps)
        ELSE NilLimitData]

\* runSyncNewLimit, second loop: a limit that is not set for the name is
\* taken from the wildcard
SyncLimit(l, m, limiterName, isQps) ==
    LET d == getLimit(l, limiterName, isQps)
        allmatchLimiterName == getAllmatchLimiterName(limiterName)
    IN IF ~Configured(d) /\ allmatchLimiterName \in DOMAIN m
                         /\ m[allmatchLimiterName] # NilLimitData
       THEN m[allmatchLimiterName] ELSE d

\* runSyncNewLimit, second loop: the limits are applied to the limiter of the
\* name, which is made when it is nil and stored as nil when no limit is left
SyncLimiter(commandLimiter, qps, rate, initialPercent, now) ==
    IF Configured(qps) \/ Configured(rate)
    THEN IF commandLimiter.isNil
         THEN NewCommandLimiterOf(qps, rate, initialPercent, now)
         ELSE updateLimit(commandLimiter, qps, rate, now)
    ELSE NilCl

runSyncNewLimit(l, now) ==
    LET qpsAll == SyncAllmatch(l, l.qpsAllmatchLimit, TRUE)
        rateAll == SyncAllmatch(l, l.rateAllmatchLimit, FALSE)
        Synced(limiterName) ==
            SyncLimiter(l.limiters[limiterName],
                        SyncLimit(l, qpsAll, limiterName, TRUE),
                        SyncLimit(l, rateAll, limiterName, FALSE),
                        InitialPercent, now)
    IN [l EXCEPT !.qpsAllmatchLimit = qpsAll, !.rateAllmatchLimit = rateAll,
                 !.limiters = [n \in DOMAIN l.limiters |-> Synced(n)],
                 !.bal.orphan =
                     IF /\ l.bal.pc # "idle"
                        /\ @.isNil
                        /\ Synced(l.bal.name).isNil
                     THEN l.limiters[l.bal.name] ELSE @]

\* reportLocalStat: the counters start again
reportLocalStat(cl) ==
    [cl EXCEPT !.totalCommandsCount = 0, !.totalCommandsSize = 0]

\* LimiterWrapper.updatePercent
updatePercent(lw, newPercent, now) ==
    IF lw.localPercent # newPercent /\ lw.localPercent[1] > 0
                                    /\ newPercent[1] > 0
    THEN [lw EXCEPT
            !.limiter = IF @ # NilLimiter
                        THEN SetLimit(@, now, LocalLimit(lw.globalLimit, newPercent))
                        ELSE @,
            !.localPercent = newPercent]
    ELSE lw

RECURSIVE SumWeights(_)
SumWeights(peers) ==
    IF peers = <<>> THEN 0 ELSE Head(peers).weight + SumWeights(Tail(peers))

\* the KV calls of balanceLimit that can fail: limitDatadb.Begin, the scan of
\* the status records, String.Set of the status record, and the commit
KVErrors == {"none", "begin", "scan", "set", "commit"}

\* a balanceLimit that never gives weight away
balanceWeightNeverDivides(cl, averageQps, peers) ==
    LET totalWeight == cl.weight + SumWeights(peers)
        Below(qps, weight, usage) ==
            qps * totalWeight * 10 < cl.qpsLw.globalLimit * weight * usage
        otherAllLow ==
            \A i \in 1..Len(peers) :
              Below(peers[i].qps, peers[i].weight, UsageToDivide)
        up == Min(cl.weight * WeightChangeFactor, MAXIMUM_WEIGHT)
    IN IF Below(averageQps, cl.weight, UsageToDivide)
       THEN IF otherAllLow THEN up ELSE cl.weight
       ELSE IF ~Below(averageQps, cl.weight, UsageToMultiply) THEN up
            ELSE cl.weight

\* balanceLimit after the skipBalance test, lines 455-490: the weight of
\* this node against the status records of the other nodes. qps is below
\* usage tenths of the share of weight when
\* qps < limit * (weight / totalWeight) * (usage / 10)
balanceWeight(cl, averageQps, peers) ==
    LET qpsGlobalLimit == cl.qpsLw.globalLimit
        totalWeight == cl.weight + SumWeights(peers)
        Below(qps, weight, usage) ==
            qps * totalWeight * 10 < qpsGlobalLimit * weight * usage
        otherHaveHigh ==
            \E i \in 1..Len(peers) :
              ~Below(peers[i].qps, peers[i].weight, UsageToMultiply)
        otherAllLow ==
            \A i \in 1..Len(peers) :
              Below(peers[i].qps, peers[i].weight, UsageToDivide)
        down == Max(cl.weight \div WeightChangeFactor, MINIMUM_WEIGHT)
        up == Min(cl.weight * WeightChangeFactor, MAXIMUM_WEIGHT)
    IN IF Below(averageQps, cl.weight, UsageToDivide)
       THEN IF otherHaveHigh THEN down
            ELSE IF otherAllLow THEN up ELSE cl.weight
       ELSE IF ~Below(averageQps, cl.weight, UsageToMultiply) THEN up
            ELSE cl.weight

\* balanceLimit: the status record is set and committed, then updatePercent
\* is called on both wrappers with cl.weight / totalWeight
balanceCommit(cl, averageQps, peers, now) ==
    LET newPercent == Percent(cl.weight, cl.weight + SumWeights(peers))
    IN [cl |-> [cl EXCEPT !.qpsLw = updatePercent(@, newPercent, now),
                          !.rateLw = updatePercent(@, newPercent, now)],
        committed |-> TRUE,
        status |-> [weight |-> cl.weight, qps |-> averageQps, time |-> now]]

\* balanceLimit after the skipBalance test: cl.weight is assigned before the
\* status record is set and committed; a failed Begin or scan returns before
\* the assignment, a failed Set or Commit after it
balanceLimit(cl, averageQps, peers, now, err) ==
    LET weighed == [cl EXCEPT !.weight = balanceWeight(cl, averageQps, peers)]
    IN IF err \in {"begin", "scan"}
       THEN [cl |-> cl, committed |-> FALSE, status |-> <<>>]
       ELSE IF err \in {"set", "commit"}
       THEN [cl |-> weighed, committed |-> FALSE, status |-> <<>>]
       ELSE balanceCommit(weighed, averageQps, peers, now)

\* conf.TitanStatusLifetime (1m), in ticks of the clock
TitanStatusLifetime == 1
\* the titan nodes, in the order of their status keys
TitanSeq == <<"ip1", "ip2">>
Titans == {TitanSeq[i] : i \in 1..Len(TitanSeq)}

\* scanStatusInOtherTitan: the weights and qps of the status records of the
\* other nodes that were written no longer than titanStatusLifetime ago
scanStatusInOtherTitan(statuses, localIp, now) ==
    LET Live(ip) == /\ ip \in DOMAIN statuses
                    /\ ip # localIp
                    /\ now - statuses[ip].time <= TitanStatusLifetime
        live == SelectSeq(TitanSeq, Live)
    IN [i \in 1..Len(live) |-> [weight |-> statuses[live[i]].weight,
                                qps |-> statuses[live[i]].qps]]

\* CommandLimiter.checkLimit: the size of a command in bytes
RECURSIVE ArgsSize(_)
ArgsSize(cmdArgs) ==
    IF cmdArgs = <<>> THEN 0
    ELSE Len(Head(cmdArgs)) + 1 + ArgsSize(Tail(cmdArgs))
cmdSize(cmdName, cmdArgs) == Len(cmdName) + ArgsSize(cmdArgs)

\* LimiterWrapper.waitTime as connection c runs it under lw.lock: the
\* reservation's delay, and the wrapper as the deferred Unlock leaves it
waitTimeKeepsLock(lw, now, eventsNum) ==
    LET r == ReserveN(lw.limiter, now, eventsNum)
    IN IF lw.limiter = NilLimiter THEN [lw |-> lw, d |-> 0]
       ELSE [lw |-> [lw EXCEPT !.limiter = r.limiter],
             d |-> IF r.ok THEN r.delay ELSE 0]

waitTime(lw, now, eventsNum) ==
    LET r == ReserveN(lw.limiter, now, eventsNum)
    IN IF lw.limiter = NilLimiter
       THEN [lw |-> [lw EXCEPT !.lock = NoConn], d |-> 0]
       ELSE [lw |-> [lw EXCEPT !.limiter = r.limiter, !.lock = NoConn],
             d |-> IF r.ok THEN r.delay ELSE 0]

\* the limits a CommandLimiter enforces
Applied(cl) ==
    [qps |-> IF cl.qpsLw.limiter = NilLimiter THEN NilLimitData
             ELSE LimitData(cl.qpsLw.globalLimit, cl.qpsLw.limiter.burst),
     rate |-> IF cl.rateLw.limiter = NilLimiter THEN NilLimitData
              ELSE LimitData(cl.rateLw.globalLimit, cl.rateLw.limiter.burst)]

\* a connection outside CheckLimit
NoName == <<"", "">>
IdleGr == [pc |-> "idle", name |-> NoName, size |-> 0, wake |-> 0,
           applied |-> Applied(NilCl)]
\* the balance loop outside balanceLimit; inside it, the limiter it is at,
\* the number of ticks that began on the limiter since its limits last
\* changed, the averageQps of the tick, and the limiter itself once the sync
\* loop has taken it out of the registry
IdleBal == [pc |-> "idle", name |-> NoName, ord |-> 0, averageQps |-> 0,
            orphan |-> NilCl]
\* the balance loop of a titan node outside balanceLimit, with the KV call
\* that failed in the last tick; inside balanceLimit after it assigned
\* cl.weight, the node and the averageQps of the tick
IdleTick == [pc |-> "idle", ip |-> "", averageQps |-> 0, err |-> "none"]
\* fetches: for each name, how often init has read its limits from the store;
\* status: the status record of this node under limiter_status:<name>:<ip>;
\* peers: the (weight, qps) of the live status records of the other nodes;
\* titans: the limiter of one name on each titan node that registered it;
\* statuses: the status records limiter_status:<name>:<ip> of these nodes
IdleLim == [kv |-> EmptyMap, limiters |-> EmptyMap,
            qpsAllmatchLimit |-> EmptyMap, rateAllmatchLimit |-> EmptyMap,
            gr |-> [c \in Conns |-> IdleGr], n |-> 0, fetches |-> EmptyMap,
            status |-> EmptyMap, peers |-> <<>>, bal |-> IdleBal,
            titans |-> EmptyMap, statuses |-> EmptyMap, tick |-> IdleTick]

\* ------------------------------------------------------------------------
\* client.go: the serve loop of a connection
\* ------------------------------------------------------------------------
ErrEmptyCommand == <<"ERR", "empty command">>
ErrUnKnownCommand(cmd) == <<"ERR", "unknown command", cmd>>
OK == <<"OK">>
\* the dispatcher's table
CanExecute(name) == name \in {"get", "client"}

\* a connection that has been accepted: SkipN and remoteClosed are zero
IdleConn == [pc |-> "serve", closed |-> FALSE, done |-> FALSE,
             input |-> <<>>, sent |-> 0, peerGone |-> FALSE,
             unknownCmdTimes |-> 0, SkipN |-> 0, remoteClosed |-> FALSE,
             out |-> <<>>, nread |-> 0, executed |-> 0, failed |-> FALSE,
             lateReads |-> 0]

\* client.Write: the reply reaches the peer (ok) or conn.Write fails
WriteKeepsOpen(c, p, ok) ==
    IF ok THEN [c EXCEPT !.out = Append(@, p)]
    ELSE [c EXCEPT !.failed = TRUE]

Write(c, p, ok) ==
    IF ok THEN [c EXCEPT !.out = Append(@, p)]
    ELSE [c EXCEPT !.failed = TRUE, !.remoteClosed = TRUE]

\* c.conn.Close() and the return from serve
Close(c) == [c EXCEPT !.closed = TRUE]
Return(c) == [c EXCEPT !.pc = "returned"]

\* CLIENT REPLY ON | OFF | SKIP: the administrative path that sets SkipN
ReplyMode(mode) ==
    IF mode = "off" THEN 0 - 1 ELSE IF mode = "skip" THEN 1 ELSE 0

\* Executor.Execute: the handler runs and its reply goes to ctx.Out, which
\* is the client (toClient) or ioutil.Discard
Execute(c, cmd, toClient, ok) ==
    LET r == [c EXCEPT !.executed = @ + 1,
                       !.SkipN = IF cmd[1] = "client" THEN ReplyMode(cmd[3])
                                 ELSE @]
    IN IF toClient THEN Write(r, OK, ok) ELSE r

\* serve, the branch of a command the dispatcher does not know
UnknownClosesLate(c, cmd, ok) ==
    LET u == [Write(c, ErrUnKnownCommand(cmd[1]), ok)
                EXCEPT !.unknownCmdTimes = @ + 1]
    IN IF u.unknownCmdTimes > 3 THEN Return(Close(u)) ELSE u

Unknown(c, cmd, ok) ==
    LET u == [Write(c, ErrUnKnownCommand(cmd[1]), ok)
                EXCEPT !.unknownCmdTimes = @ + 1]
    IN IF u.unknownCmdTimes >= 3 THEN Return(Close(u)) ELSE u

\* serve, from "Skip reply if necessary" to Execute
Dispatch(c, cmd, ok) ==
    Execute(IF c.SkipN > 0 THEN [c EXCEPT !.SkipN = @ - 1] ELSE c,
            cmd, c.SkipN = 0, ok)

\* one round of the loop of serve; an empty input is the EOF of a peer
\* that has gone
serve(c, ok) ==
    IF c.done \/ c.remoteClosed \/ c.input = <<>> THEN Return(Close(c))
    ELSE LET cmd == Head(c.input)
             r == [c EXCEPT !.input = Tail(@), !.nread = @ + 1]
         IN IF Len(cmd) <= 0
            THEN Return(Close(Write(r, ErrEmptyCommand, ok)))
            ELSE IF ~CanExecute(cmd[1]) THEN Unknown(r, cmd, ok)
                 ELSE Dispatch(r, cmd, ok)

\* the select at the top of the loop of serve: Done is closed, or the
\* default branch is taken and ends in readCommand
serveSelectIgnoresDone(c) ==
    IF c.remoteClosed THEN Return(Close(c)) ELSE [c EXCEPT !.pc = "read"]

serveSelect(c) ==
    IF c.done \/ c.remoteClosed THEN Return(Close(c))
    ELSE [c EXCEPT !.pc = "read"]

\* readCommand has returned, with a command or with the EOF of a peer that
\* has gone, and the round goes on to its end; lateReads counts the
\* commands read since Done was closed
serveCommand(c, ok) ==
    LET r == serve([c EXCEPT !.done = FALSE,
                             !.lateReads = IF c.done /\ c.input # <<>>
                                           THEN @ + 1 ELSE @], ok)
    IN [r EXCEPT !.done = c.done,
                 !.pc = IF @ = "returned" THEN @ ELSE "serve"]

\* ------------------------------------------------------------------------
\* The leader lease and the leader status
\* ------------------------------------------------------------------------
Nodes == {"n1", "n2"}
LeaderLifeTime == 2
\* how far the counters of the leader status count
MaxSets == 2

\* the record under $sys:0:EXL:EXLeader; NoLease: the key is absent
NoLease == [owner |-> "", ts |-> 0]

\* the lease is held: it names an owner and its time has not come
Unexpired(lease, now) == lease # NoLease /\ now < lease.ts

\* isLeader(db, sysExpireLeader, id, conf.LeaderLifeTime): a node becomes
\* leader if the lease is absent or expired, and renews the lease it owns; the
\* lease value is (owner, now + leader_life_time)
isLeader(lease, id, now) ==
    IF ~Unexpired(lease, now) \/ lease.owner = id
    THEN [isLeader |-> TRUE,
          lease |-> [owner |-> id, ts |-> now + LeaderLifeTime]]
    ELSE [isLeader |-> FALSE, lease |-> lease]

\* the LeaderStatus of a node and its expire worker (startExpire): wpc is
\* the worker's position, "ticker" (waits for its ticker), "wait" (parked in
\* ls.cond.Wait), "woken" (a Broadcast has released it) or "run" (inside
\* runExpire); sets counts the setIsLeader calls since the worker started to
\* wait, ticks the ticks the worker began since the last Broadcast
IdleNode == [isLeader |-> FALSE, wpc |-> "ticker", sets |-> 0, ticks |-> 0]
IdleLdr == [lease |-> NoLease, node |-> [n \in Nodes |-> IdleNode]]

\* a getIsLeader whose Wait returns at once
condNoWait(nd) == [nd EXCEPT !.wpc = "woken", !.sets = 0]

\* getIsLeader up to ls.cond.Wait(): the caller is parked until a Broadcast
condWait(nd) == [nd EXCEPT !.wpc = "wait", !.sets = 0]

\* setIsLeader: sets the flag and broadcasts
setIsLeader(nd, isLeaderNow) ==
    [nd EXCEPT !.isLeader = isLeaderNow,
               !.wpc = IF @ = "wait" THEN "woken" ELSE @,
               !.sets = IF nd.wpc \in {"wait", "woken"}
                        THEN (IF @ < MaxSets THEN @ + 1 ELSE @) ELSE @,
               !.ticks = 0]

\* ------------------------------------------------------------------------
\* The state
\* ------------------------------------------------------------------------
VARIABLES
    store,            \* the committed content of the key-value store
    clock,            \* the wall clock (Now, time.Now().UnixNano())
    cli,              \* the client connection: its command and transaction
    rtx,              \* the expire worker: the transaction of its tick
    lastExpireEndTs,  \* startExpire's lastExpireEndTs
    cfg,              \* the workload: the keys and score arguments in use
    lim,              \* the LimitersMgr and the connections inside CheckLimit
    conn,             \* the serve loop of one connection and its input
    ldr               \* the leader lease, and the leader status of each node

vars == <<store, clock, cli, rtx, lastExpireEndTs, cfg, lim, conn, ldr>>

\* a command: its name and arguments
Cmd(name, key) ==
    [name |-> name, key |-> key, kvs |-> <<>>, start |-> 0, stop |-> 0,
     withScore |-> FALSE, val |-> <<>>, expire |-> 0, ctor |-> ""]
NoCmd == Cmd("", "")

IdleCli == [phase |-> "idle", cmd |-> NoCmd, reply |-> NoReply,
            t |-> Begin(EmptyStore), ok |-> FALSE, doomed |-> FALSE,
            committed |-> FALSE]
IdleRtx == [phase |-> "idle", t |-> Begin(EmptyStore), endTs |-> 0,
            doomed |-> FALSE, committed |-> FALSE]

\* the ids that occur in a store
UsedIDs(st) ==
    {st.meta[k].ID : k \in DOMAIN st.meta}
      \cup {dk[1] : dk \in DOMAIN st.data}
      \cup {sk[1] : sk \in st.score}
      \cup {st.expire[ek] : ek \in DOMAIN st.expire}
      \cup st.gc
\* UUID(): an id that occurs nowhere
Fresh == cfg.ids \ (UsedIDs(store) \cup UsedIDs(cli.t.st) \cup UsedIDs(rtx.t.st))
UUID == IF Fresh = {} THEN NoID
        ELSE IDSeq[CHOOSE i \in 1..Len(IDSeq) :
                      /\ IDSeq[i] \in Fresh
                      /\ \A j \in 1..(i - 1) : IDSeq[j] \notin Fresh]

\* a client command has run in a transaction of its own and waits for commit;
\* the transaction holds its buffered writes
Pending(cmd, r) ==
    /\ NoID \notin UsedIDs(r.t.st)
    /\ cli' = [phase |-> "pending", cmd |-> cmd, reply |-> r.reply,
               t |-> Buffered(r.t), ok |-> r.ok, doomed |-> FALSE,
               committed |-> FALSE]

ClientReady == cli.phase = "idle"
Frame == UNCHANGED <<store, clock, rtx, lastExpireEndTs, cfg, lim, conn, ldr>>

\* the arguments of ZADD: n (score, member) pairs and possibly a dangling one
RECURSIVE Flatten(_)
Flatten(pairs) ==
    IF pairs = <<>> THEN <<>>
    ELSE <<Head(pairs)[1], Head(pairs)[2]>> \o Flatten(Tail(pairs))

\* ------------------------------------------------------------------------
\* The ZSet commands
\* ------------------------------------------------------------------------
ZAddCmd ==
    /\ ClientReady
    /\ \E key \in cfg.keys, n \in 0..MaxPairs, dangling \in cfg.dangling :
         \E pairs \in [1..n -> cfg.scoreArgs \X cfg.members] :
            LET kvs == Flatten(pairs) \o dangling
            IN Pending([Cmd("ZADD", key) EXCEPT !.kvs = kvs],
                       ZAdd(Begin(store), key, kvs, UUID))
    /\ Frame

ZRemCmd ==
    /\ ClientReady
    /\ \E key \in cfg.keys, n \in 0..MaxPairs :
         \E args \in [1..n -> cfg.members] :
            Pending([Cmd("ZREM", key) EXCEPT !.kvs = args],
                    ZRem(Begin(store), key, args, UUID))
    /\ Frame

ZRangeCmd ==
    /\ ClientReady
    /\ \E key \in cfg.keys, start \in (0 - MaxIndex)..MaxIndex,
          stop \in (0 - MaxIndex)..MaxIndex, withScore \in BOOLEAN :
            Pending([Cmd("ZRANGE", key) EXCEPT !.start = start, !.stop = stop,
                                                !.withScore = withScore],
                    zAnyOrderRange(Begin(store), key, start, stop, withScore,
                                   TRUE, UUID))
    /\ Frame

ZRevRangeCmd ==
    /\ ClientReady
    /\ \E key \in cfg.keys, start \in (0 - MaxIndex)..MaxIndex,
          stop \in (0 - MaxIndex)..MaxIndex, withScore \in BOOLEAN :
            Pending([Cmd("ZREVRANGE", key) EXCEPT !.start = start, !.stop = stop,
                                                   !.withScore = withScore],
                    zAnyOrderRange(Begin(store), key, start, stop, withScore,
                                   FALSE, UUID))
    /\ Frame

ZCardCmd ==
    /\ ClientReady
    /\ \E key \in cfg.keys :
            Pending(Cmd("ZCARD", key), ZCard(Begin(store), key, UUID))
    /\ Frame

ZScoreCmd ==
    /\ ClientReady
    /\ \E key \in cfg.keys, member \in cfg.members :
            Pending([Cmd("ZSCORE", key) EXCEPT !.kvs = <<member>>],
                    ZScore(Begin(store), key, member, UUID))
    /\ Frame

\* the transaction of the client's command commits; it fails when the command
\* failed (rollback) or when a key it wrote was committed by another
\* transaction since it began
ClientCommit ==
    /\ cli.phase = "pending"
    /\ LET success == cli.ok /\ ~cli.doomed
       IN /\ store' = IF success THEN Commit(store, cli.t) ELSE store
          /\ cli' = [cli EXCEPT !.phase = "done", !.committed = success]
          /\ rtx' = IF success /\ rtx.phase = "pending"
                       /\ Conflict(cli.t.w, rtx.t.w)
                    THEN [rtx EXCEPT !.doomed = TRUE] ELSE rtx
    /\ UNCHANGED <<clock, lastExpireEndTs, cfg, lim, conn, ldr>>

\* ------------------------------------------------------------------------
\* The String operations.  A command obtains its String with GetString or
\* with NewString (ctor) and applies one method of db/string.go to it.
\* ------------------------------------------------------------------------
Status(st) == [kind |-> "status", n |-> 0, s |-> st, items |-> <<>>]
Bulk(val) == [kind |-> "bulk", n |-> 0, s |-> "", items |-> val]
Failed(t, e) == [t |-> t, reply |-> Error(e), ok |-> FALSE]

\* the String a command works on
Obtain(t, key, ctor, now, uuid) ==
    IF ctor = "NewString" THEN [err |-> NoErr, str |-> NewString(uuid)]
    ELSE GetString(t, key, now)

SetCmd ==
    /\ ClientReady
    /\ \E key \in cfg.keys, val \in cfg.vals, expire \in 0..cfg.maxExpire,
          ctor \in cfg.ctors :
         LET t == Begin(store)
             g == Obtain(t, key, ctor, clock, UUID)
         IN Pending([Cmd("SET", key) EXCEPT !.val = val, !.expire = expire,
                                            !.ctor = ctor],
                    IF g.err # NoErr THEN Failed(t, g.err)
                    ELSE [t |-> StringSet(t, key, g.str, val, expire, clock),
                          reply |-> Status("OK"), ok |-> TRUE])
    /\ Frame

AppendCmd ==
    /\ ClientReady
    /\ \E key \in cfg.keys, val \in cfg.vals :
         LET t == Begin(store)
             g == GetString(t, key, clock)
             r == StringAppend(t, key, g.str, val)
         IN /\ g.err = NoErr => r.len <= MaxValLen
            /\ Pending([Cmd("APPEND", key) EXCEPT !.val = val, !.ctor = "GetString"],
                       IF g.err # NoErr THEN Failed(t, g.err)
                       ELSE [t |-> r.t, reply |-> Integer(r.len), ok |-> TRUE])
    /\ Frame

IncrCmd ==
    /\ ClientReady
    /\ \E key \in cfg.keys :
         LET t == Begin(store)
             g == GetString(t, key, clock)
             r == StringIncr(t, key, g.str, 1, clock)
         IN /\ (g.err = NoErr /\ r.err = NoErr) => r.n <= MaxNum
            /\ Pending([Cmd("INCR", key) EXCEPT !.ctor = "GetString"],
                       IF g.err # NoErr THEN Failed(t, g.err)
                       ELSE IF r.err # NoErr THEN Failed(t, r.err)
                       ELSE [t |-> r.t, reply |-> Integer(r.n), ok |-> TRUE])
    /\ Frame

\* INCRBY key delta
IncrByCmd ==
    /\ ClientReady
    /\ \E key \in cfg.keys, delta \in cfg.deltas :
         LET t == Begin(store)
             g == GetString(t, key, clock)
             r == StringIncr(t, key, g.str, delta, clock)
         IN Pending([Cmd("INCRBY", key) EXCEPT !.ctor = "GetString",
                                               !.start = delta],
                    IF g.err # NoErr THEN Failed(t, g.err)
                    ELSE IF r.err # NoErr THEN Failed(t, r.err)
                    ELSE [t |-> r.t, reply |-> Integer(r.n), ok |-> TRUE])
    /\ Frame

\* GETRANGE key start end; the capacity of the value read from the store is
\* its length or more
GetRangeCmd ==
    /\ ClientReady
    /\ \E key \in cfg.keys, start \in (0 - MaxIndex)..MaxIndex,
          end \in (0 - MaxIndex)..MaxIndex, spare \in {0, MaxIndex + 1} :
         LET t == Begin(store)
             g == GetString(t, key, clock)
             r == GetRange(g.str, start, end, Len(g.str.Meta.Value) + spare)
         IN Pending([Cmd("GETRANGE", key) EXCEPT !.ctor = "GetString",
                                                 !.start = start,
                                                 !.stop = end],
                    IF g.err # NoErr THEN Failed(t, g.err)
                    ELSE IF r.panic THEN Failed(t, "panic")
                    ELSE [t |-> t, ok |-> TRUE, reply |-> Bulk(r.val)])
    /\ Frame

GetSetCmd ==
    /\ ClientReady
    /\ \E key \in cfg.keys, val \in cfg.vals :
         LET t == Begin(store)
             g == GetString(t, key, clock)
             r == StringGetSet(t, key, g.str, val, clock)
         IN Pending([Cmd("GETSET", key) EXCEPT !.val = val, !.ctor = "GetString"],
                    IF g.err # NoErr THEN Failed(t, g.err)
                    ELSE [t |-> r.t, ok |-> TRUE,
                          reply |-> IF r.oldNil THEN NullBulkString ELSE Bulk(r.old)])
    /\ Frame

GetCmd ==
    /\ ClientReady
    /\ \E key \in cfg.keys :
         LET t == Begin(store)
             g == GetString(t, key, clock)
             r == StringGet(g.str)
         IN Pending([Cmd("GET", key) EXCEPT !.ctor = "GetString"],
                    IF g.err # NoErr THEN Failed(t, g.err)
                    ELSE [t |-> t, ok |-> TRUE,
                          reply |-> IF r.err # NoErr THEN NullBulkString
                                    ELSE Bulk(r.val)])
    /\ Frame

\* EXPIRE: give the object of a key the expiry now + seconds
ExpireObject(t, key, at, now) ==
    IF key \notin DOMAIN t.st.meta \/ IsExpired(t.st.meta[key], now)
    THEN [t |-> t, reply |-> Integer(0), ok |-> TRUE]
    ELSE LET obj == t.st.meta[key]
             t1 == expireAt(t, key, obj.ID, obj.ExpireAt, at)
         IN [t |-> TxnSetMeta(t1, key, [obj EXCEPT !.ExpireAt = at]),
             reply |-> Integer(1), ok |-> TRUE]

ExpireCmd ==
    /\ ClientReady
    /\ \E key \in cfg.keys, seconds \in 1..cfg.maxExpire :
         Pending([Cmd("EXPIRE", key) EXCEPT !.expire = seconds],
                 ExpireObject(Begin(store), key, clock + seconds, clock))
    /\ Frame

\* ------------------------------------------------------------------------
\* The expire worker (startExpire): one tick is the transaction of runExpire
\* ------------------------------------------------------------------------
ReaperBegin ==
    /\ rtx.phase = "idle"
    /\ LET r == runExpire(store, BatchLimit, lastExpireEndTs, clock)
       IN rtx' = [phase |-> "pending", t |-> Buffered(r.t),
                  endTs |-> r.thisExpireEndTs,
                  doomed |-> FALSE, committed |-> FALSE]
    /\ UNCHANGED <<store, clock, cli, lastExpireEndTs, cfg, lim, conn, ldr>>

\* txn.Commit of runExpire; runExpire returns thisExpireEndTs whether or not
\* the commit succeeded
ReaperCommit ==
    /\ rtx.phase = "pending"
    /\ store' = IF rtx.doomed THEN store ELSE Commit(store, rtx.t)
    /\ rtx' = IdleRtx
    /\ cli' = IF ~rtx.doomed /\ cli.phase = "pending" /\ Conflict(rtx.t.w, cli.t.w)
              THEN [cli EXCEPT !.doomed = TRUE] ELSE cli
    /\ lastExpireEndTs' = rtx.endTs
    /\ UNCHANGED <<clock, cfg, lim, conn, ldr>>

\* a tick whose db.Begin, Iter, doExpire, Delete or iter.Next fails: runExpire
\* rolls back and returns 0
ReaperKVError ==
    /\ rtx.phase = "idle"
    /\ lastExpireEndTs # 0
    /\ lastExpireEndTs' = 0
    /\ UNCHANGED <<store, clock, cli, rtx, cfg, lim, conn, ldr>>

\* the garbage collector removes the data keys under a prefix handed to it
GCWorker ==
    /\ \E id \in store.gc :
         /\ store' = [store EXCEPT
                         !.data = [dk \in {d \in DOMAIN store.data : d[1] # id} |->
                                      store.data[dk]],
                         !.gc = @ \ {id}]
         /\ cli' = IF cli.phase = "pending"
                      /\ (id \in cli.t.w.gc \/ \E dk \in cli.t.w.data : dk[1] = id)
                   THEN [cli EXCEPT !.doomed = TRUE] ELSE cli
         /\ rtx' = IF rtx.phase = "pending" /\ id \in rtx.t.w.gc
                   THEN [rtx EXCEPT !.doomed = TRUE] ELSE rtx
    /\ UNCHANGED <<clock, lastExpireEndTs, cfg, lim, conn, ldr>>

\* time passes
Tick ==
    /\ clock < cfg.maxClock
    /\ clock' = clock + 1
    /\ UNCHANGED <<store, cli, rtx, lastExpireEndTs, cfg, lim, conn, ldr>>

\* the reply has been written to the connection (OnCommit); the serve loop
\* reads the next command
ClientReply ==
    /\ cli.phase = "done"
    /\ cli' = IdleCli
    /\ UNCHANGED <<store, clock, rtx, lastExpireEndTs, cfg, lim, conn, ldr>>

\* ------------------------------------------------------------------------
\* The connections inside CheckLimit and the sync loop
\* ------------------------------------------------------------------------
LimitedCmds == {"get"}
LimitedArgs == {<<"k">>}

\* CheckLimit: the limiter of the name is loaded, or made by init; a nil
\* limiter lets the command through
CheckLimit(c) ==
    /\ lim.gr[c].pc = "idle"
    /\ lim.n < MaxCommands
    /\ \E namespace \in Namespaces, cmdName \in LimitedCmds,
          cmdArgs \in LimitedArgs :
         LET limiterName == LimiterName(namespace, cmdName)
             r == IF limiterName \in DOMAIN lim.limiters
                  THEN [l |-> lim, cl |-> lim.limiters[limiterName]]
                  ELSE init(lim, limiterName, clock)
         IN lim' = [r.l EXCEPT
                      !.n = @ + 1,
                      !.gr[c] = [pc |-> IF r.cl.isNil THEN "idle"
                                        ELSE "qpsLock",
                                 name |-> limiterName,
                                 size |-> IF r.cl.isNil THEN 0
                                          ELSE cmdSize(cmdName, cmdArgs),
                                 wake |-> 0,
                                 applied |-> Applied(r.cl)]]
    /\ UNCHANGED <<store, clock, cli, rtx, lastExpireEndTs, cfg, conn, ldr>>

\* the wrapper a connection is at in checkLimit
LwOf(c) == IF lim.gr[c].pc \in {"qpsLock", "qpsWait", "qpsSleep"}
           THEN "qpsLw" ELSE "rateLw"

\* waitTime: lw.lock.Lock()
WaitTimeLock(c) ==
    /\ lim.gr[c].pc \in {"qpsLock", "rateLock"}
    /\ lim.limiters[lim.gr[c].name][LwOf(c)].lock = NoConn
    /\ lim' = [lim EXCEPT
                 !.limiters[lim.gr[c].name][LwOf(c)].lock = c,
                 !.gr[c].pc = IF @ = "qpsLock" THEN "qpsWait" ELSE "rateWait"]
    /\ UNCHANGED <<store, clock, cli, rtx, lastExpireEndTs, cfg, conn, ldr>>

\* waitTime: the reservation and the return; time.Sleep(d) begins
WaitTime(c) ==
    /\ lim.gr[c].pc \in {"qpsWait", "rateWait"}
    /\ LET r == waitTime(lim.limiters[lim.gr[c].name][LwOf(c)], clock,
                         IF LwOf(c) = "qpsLw" THEN 1 ELSE lim.gr[c].size)
       IN lim' = [lim EXCEPT
                    !.limiters[lim.gr[c].name][LwOf(c)] = r.lw,
                    !.gr[c].wake = clock + r.d,
                    !.gr[c].pc = IF @ = "qpsWait" THEN "qpsSleep"
                                 ELSE "rateSleep"]
    /\ UNCHANGED <<store, clock, cli, rtx, lastExpireEndTs, cfg, conn, ldr>>

\* time.Sleep(d) returns
Wake(c) ==
    /\ lim.gr[c].pc \in {"qpsSleep", "rateSleep"}
    /\ clock >= lim.gr[c].wake
    /\ lim' = [lim EXCEPT
                 !.gr[c].pc = IF @ = "qpsSleep" THEN "rateLock"
                              ELSE "countLock"]
    /\ UNCHANGED <<store, clock, cli, rtx, lastExpireEndTs, cfg, conn, ldr>>

\* checkLimit: cl.lock.Lock()
CountLock(c) ==
    /\ lim.gr[c].pc = "countLock"
    /\ lim.limiters[lim.gr[c].name].lock = NoConn
    /\ lim' = [lim EXCEPT !.limiters[lim.gr[c].name].lock = c,
                          !.gr[c].pc = "count"]
    /\ UNCHANGED <<store, clock, cli, rtx, lastExpireEndTs, cfg, conn, ldr>>

\* checkLimit: the counters, the deferred Unlock and the return
Count(c) ==
    /\ lim.gr[c].pc = "count"
    /\ lim' = [lim EXCEPT
                 !.limiters[lim.gr[c].name].totalCommandsCount = @ + 1,
                 !.limiters[lim.gr[c].name].totalCommandsSize =
                     @ + lim.gr[c].size,
                 !.limiters[lim.gr[c].name].lock = NoConn,
                 !.gr[c] = [@ EXCEPT !.pc = "idle", !.size = 0, !.wake = 0]]
    /\ UNCHANGED <<store, clock, cli, rtx, lastExpireEndTs, cfg, conn, ldr>>

\* the locks of a limiter are free
Unlocked(cl) ==
    cl.lock = NoConn /\ cl.qpsLw.lock = NoConn /\ cl.rateLw.lock = NoConn

\* one round of startSyncNewLimit; updateLimit waits for the locks
SyncNewLimit ==
    /\ \A n \in DOMAIN lim.limiters : Unlocked(lim.limiters[n])
    /\ lim' = runSyncNewLimit(lim, clock)
    /\ UNCHANGED <<store, clock, cli, rtx, lastExpireEndTs, cfg, conn, ldr>>

\* the limits in the store: each of qps:n1@get, rate:n1@get, qps:*@get and
\* rate:*@get is set or not; nothing is set for n2@get
LimitKeys ==
    {"qps", "rate"} \X ({LimiterName(ns, cmd) : ns \in Namespaces \cup {ALL_NAMESPACE},
                                                cmd \in LimitedCmds})
LimitChoice(k) ==
    IF k[2][1] = "n2" THEN {NilLimitData}
    ELSE {NilLimitData,
          IF k[1] = "qps"
          THEN (IF k[2][1] = ALL_NAMESPACE THEN LimitData(2, 2)
                ELSE LimitData(1, 1))
          ELSE (IF k[2][1] = ALL_NAMESPACE THEN LimitData(10, 10)
                ELSE LimitData(5, 5))}
LimitValues == UNION {LimitChoice(k) : k \in LimitKeys}

InitLimiter ==
    /\ store = EmptyStore
    /\ clock = 1
    /\ cli = IdleCli
    /\ rtx = IdleRtx
    /\ lastExpireEndTs = 0
    /\ cfg = [keys |-> {}, scoreArgs |-> {}, members |-> {}, vals |-> {},
              dangling |-> {}, ctors |-> {}, ids |-> {},
              maxClock |-> MaxClock, maxExpire |-> 0]
    /\ \E kv \in [LimitKeys -> LimitValues] :
         /\ \A k \in LimitKeys : kv[k] \in LimitChoice(k)
         /\ lim = [IdleLim EXCEPT !.kv = kv]
    /\ conn = IdleConn
    /\ ldr = IdleLdr

NextLimiter ==
    \/ \E c \in Conns : CheckLimit(c)
    \/ \E c \in Conns : WaitTimeLock(c)
    \/ \E c \in Conns : WaitTime(c)
    \/ \E c \in Conns : Wake(c)
    \/ \E c \in Conns : CountLock(c)
    \/ \E c \in Conns : Count(c)
    \/ SyncNewLimit
    \/ Tick

SpecLimiter == InitLimiter /\ [][NextLimiter]_vars

\* the connections inside CheckLimit when n1@get has a qps limit, or none,
\* and a rate limit whose burst is the size of GET k, or one byte less
InitBurst ==
    /\ store = EmptyStore
    /\ clock = 1
    /\ cli = IdleCli
    /\ rtx = IdleRtx
    /\ lastExpireEndTs = 0
    /\ cfg = [keys |-> {}, scoreArgs |-> {}, members |-> {}, vals |-> {},
              dangling |-> {}, ctors |-> {}, ids |-> {},
              maxClock |-> MaxClock, maxExpire |-> 0]
    /\ \E qps \in {NilLimitData, LimitData(1, 1)},
          rate \in {LimitData(5, 5), LimitData(5, 4)} :
         lim = [IdleLim EXCEPT
                  !.kv = [k \in LimitKeys |->
                            IF k = <<"qps", LimiterName("n1", "get")>> THEN qps
                            ELSE IF k = <<"rate", LimiterName("n1", "get")>>
                                 THEN rate
                                 ELSE NilLimitData]]
    /\ conn = IdleConn
    /\ ldr = IdleLdr

SpecBurst == InitBurst /\ [][NextLimiter]_vars

\* ------------------------------------------------------------------------
\* One connection and its peer
\* ------------------------------------------------------------------------
PeerCmds == {<<"get", "k">>, <<"foo">>, <<>>, <<"client", "reply", "skip">>,
             <<"client", "reply", "off">>, <<"client", "reply", "on">>}

\* the peer pipelines a command
Send ==
    /\ ~conn.peerGone
    /\ conn.sent < MaxInput
    /\ \E cmd \in PeerCmds :
         conn' = [conn EXCEPT !.input = Append(@, cmd), !.sent = @ + 1]
    /\ UNCHANGED <<store, clock, cli, rtx, lastExpireEndTs, cfg, lim, ldr>>

\* the peer closes the connection; what it sent stays buffered
PeerClose ==
    /\ ~conn.peerGone
    /\ conn' = [conn EXCEPT !.peerGone = TRUE]
    /\ UNCHANGED <<store, clock, cli, rtx, lastExpireEndTs, cfg, lim, ldr>>

\* the server closes cliCtx.Done
Kill ==
    /\ ~conn.done
    /\ conn' = [conn EXCEPT !.done = TRUE]
    /\ UNCHANGED <<store, clock, cli, rtx, lastExpireEndTs, cfg, lim, ldr>>

\* one round of serve; readCommand blocks while the peer is there and has
\* sent nothing; a write to a peer that has gone may still succeed
Serve ==
    /\ conn.pc = "serve"
    /\ conn.done \/ conn.remoteClosed \/ conn.input # <<>> \/ conn.peerGone
    /\ \E ok \in (IF conn.peerGone THEN {TRUE, FALSE} ELSE {TRUE}) :
         conn' = serve(conn, ok)
    /\ UNCHANGED <<store, clock, cli, rtx, lastExpireEndTs, cfg, lim, ldr>>

InitServe ==
    /\ store = EmptyStore
    /\ clock = 1
    /\ cli = IdleCli
    /\ rtx = IdleRtx
    /\ lastExpireEndTs = 0
    /\ lim = IdleLim
    /\ conn = IdleConn
    /\ ldr = IdleLdr
    /\ cfg = [keys |-> {}, scoreArgs |-> {}, members |-> {}, vals |-> {},
              dangling |-> {}, ctors |-> {}, ids |-> {},
              maxClock |-> 0, maxExpire |-> 0]

NextServe ==
    \/ Send
    \/ PeerClose
    \/ Kill
    \/ Serve

SpecServe == InitServe /\ [][NextServe]_vars

\* the select of serve
Select ==
    /\ conn.pc = "serve"
    /\ conn' = serveSelect(conn)
    /\ UNCHANGED <<store, clock, cli, rtx, lastExpireEndTs, cfg, lim, ldr>>

\* readCommand returns and the round runs to its end; readCommand blocks
\* while the peer is there and has sent nothing
ReadCommand ==
    /\ conn.pc = "read"
    /\ conn.input # <<>> \/ conn.peerGone
    /\ \E ok \in (IF conn.peerGone THEN {TRUE, FALSE} ELSE {TRUE}) :
         conn' = serveCommand(conn, ok)
    /\ UNCHANGED <<store, clock, cli, rtx, lastExpireEndTs, cfg, lim, ldr>>

\* the serve loop with Done closed at any moment, also while the loop waits
\* in readCommand
NextDone ==
    \/ Send
    \/ PeerClose
    \/ Kill
    \/ Select
    \/ ReadCommand

SpecDone == InitServe /\ [][NextDone]_vars

\* ------------------------------------------------------------------------
\* ZSet commands on one key
\* ------------------------------------------------------------------------
InitZSet ==
    /\ store = EmptyStore
    /\ clock = 1
    /\ cli = IdleCli
    /\ rtx = IdleRtx
    /\ lastExpireEndTs = 0
    /\ lim = IdleLim
    /\ conn = IdleConn
    /\ ldr = IdleLdr
    /\ cfg = [keys |-> {"k"}, scoreArgs |-> ScoreArgs, members |-> {"a", "b"},
              vals |-> {}, dangling |-> {<<>>, <<"1">>}, ctors |-> {},
              ids |-> {"id1", "id2"},
              maxClock |-> MaxClock, maxExpire |-> MaxExpire]

NextZSet ==
    \/ ZAddCmd
    \/ ZRemCmd
    \/ ZRangeCmd
    \/ ZRevRangeCmd
    \/ ZCardCmd
    \/ ZScoreCmd
    \/ ClientCommit
    \/ ClientReply

SpecZSet == InitZSet /\ [][NextZSet]_vars

\* ------------------------------------------------------------------------
\* ZRANGE / ZREVRANGE over three members
\* ------------------------------------------------------------------------
InitRange ==
    /\ store = EmptyStore
    /\ clock = 1
    /\ cli = IdleCli
    /\ rtx = IdleRtx
    /\ lastExpireEndTs = 0
    /\ lim = IdleLim
    /\ conn = IdleConn
    /\ ldr = IdleLdr
    /\ cfg = [keys |-> {"k"}, scoreArgs |-> {"1", "2", "-0"}, members |-> Members,
              vals |-> {}, dangling |-> {<<>>, <<"1">>}, ctors |-> {},
              ids |-> {"id1", "id2"},
              maxClock |-> MaxClock, maxExpire |-> MaxExpire]

SpecRange == InitRange /\ [][NextZSet]_vars

\* the ZSet commands with scores of either sign: infinities, a subnormal
\* (0.5) and both zeros
InitScore ==
    /\ store = EmptyStore
    /\ clock = 1
    /\ cli = IdleCli
    /\ rtx = IdleRtx
    /\ lastExpireEndTs = 0
    /\ lim = IdleLim
    /\ conn = IdleConn
    /\ ldr = IdleLdr
    /\ cfg = [keys |-> {"k"},
              scoreArgs |-> {"-inf", "-1", "-0.5", "-0", "0", "0.5", "1", "inf"},
              members |-> {"a", "b"},
              vals |-> {}, dangling |-> {<<>>}, ctors |-> {},
              ids |-> {"id1", "id2"},
              maxClock |-> MaxClock, maxExpire |-> MaxExpire]

SpecScore == InitScore /\ [][NextZSet]_vars


\* ------------------------------------------------------------------------
\* Strings, sorted sets and the expire worker on one key
\* ------------------------------------------------------------------------
Init ==
    /\ store = EmptyStore
    /\ clock = 1
    /\ cli = IdleCli
    /\ rtx = IdleRtx
    /\ lastExpireEndTs = 0
    /\ lim = IdleLim
    /\ conn = IdleConn
    /\ ldr = IdleLdr
    /\ cfg = [keys |-> {"k"}, scoreArgs |-> {"1"}, members |-> {"a"},
              vals |-> {<<"1">>}, dangling |-> {<<>>}, ctors |-> {"NewString"},
              ids |-> {"id1", "id2"},
              maxClock |-> MaxClock, maxExpire |-> MaxExpire]

Next ==
    \/ ZAddCmd
    \/ ZRemCmd
    \/ SetCmd
    \/ AppendCmd
    \/ IncrCmd
    \/ GetSetCmd
    \/ GetCmd
    \/ ExpireCmd
    \/ ClientCommit
    \/ ClientReply
    \/ ReaperBegin
    \/ ReaperCommit
    \/ GCWorker
    \/ Tick

Spec == Init /\ [][Next]_vars

\* ------------------------------------------------------------------------
\* Objects of one key that are replaced while their expiry is pending, and
\* the expire worker
\* ------------------------------------------------------------------------
NextReaper ==
    \/ ZAddCmd
    \/ ZRemCmd
    \/ SetCmd
    \/ ExpireCmd
    \/ ClientCommit
    \/ ClientReply
    \/ ReaperBegin
    \/ ReaperCommit
    \/ GCWorker
    \/ Tick

InitReaper ==
    /\ store = EmptyStore
    /\ clock = 1
    /\ cli = IdleCli
    /\ rtx = IdleRtx
    /\ lastExpireEndTs = 0
    /\ lim = IdleLim
    /\ conn = IdleConn
    /\ ldr = IdleLdr
    /\ cfg = [keys |-> {"k"}, scoreArgs |-> {"1"}, members |-> {"a"},
              vals |-> {<<"1">>}, dangling |-> {<<>>},
              ctors |-> {"NewString"}, ids |-> {"id1", "id2"},
              maxClock |-> MaxClock + 1, maxExpire |-> MaxExpire + 1]

SpecReaper == InitReaper /\ [][NextReaper]_vars

\* Longest user key of a meta key that is split.
MaxKeyLen == 3
\* user keys of the bytes 'k' and ':', the empty key among them
RawKeys == UNION {[1..n -> {107, 58}] : n \in 0..MaxKeyLen}
\* namespaces without a colon, and db ids
RawNamespaces == {<<110>>, <<110, 115>>, <<>>}
DBIDs == {0, 1, 15}

\* doExpire splits the meta key of the expire-index entry it was handed
DoExpireSplit ==
    /\ rtx.phase = "idle"
    /\ LET r == splitMetaKey(MetaKey(cfg.namespace, cfg.id, cfg.key))
       IN rtx' = [phase |-> "split", namespace |-> r.namespace, dbid |-> r.id,
                  key |-> r.rawkey]
    /\ UNCHANGED <<store, clock, cli, lastExpireEndTs, cfg, lim, conn, ldr>>

\* an expire-index entry of any meta key
InitSplit ==
    /\ store = EmptyStore
    /\ clock = 1
    /\ cli = IdleCli
    /\ rtx = IdleRtx
    /\ lastExpireEndTs = 0
    /\ lim = IdleLim
    /\ conn = IdleConn
    /\ ldr = IdleLdr
    /\ \E namespace \in RawNamespaces, id \in DBIDs, key \in RawKeys :
         cfg = [namespace |-> namespace, id |-> id, key |-> key]

SpecSplit == InitSplit /\ [][DoExpireSplit]_vars

\* the store after ZADD k 1 a and EXPIRE k 1 at time 0
ExpiringZSet ==
    LET s1 == Commit(EmptyStore,
                     Buffered(ZAdd(Begin(EmptyStore), "k", <<"1", "a">>,
                                   "id1").t))
    IN Commit(s1, Buffered(ExpireObject(Begin(s1), "k", 1, 0).t))

\* the sorted set k has passed its expire_at and the expire worker has not
\* come to its entry yet
InitLate ==
    /\ store = ExpiringZSet
    /\ clock = 2
    /\ cli = IdleCli
    /\ rtx = IdleRtx
    /\ lastExpireEndTs = 0
    /\ lim = IdleLim
    /\ conn = IdleConn
    /\ ldr = IdleLdr
    /\ cfg = [keys |-> {"k"}, scoreArgs |-> {"1", "2"}, members |-> {"a", "b"},
              vals |-> {}, dangling |-> {<<>>}, ctors |-> {},
              ids |-> {"id1", "id2"},
              maxClock |-> MaxClock + 1, maxExpire |-> 0]

\* ZADDs on the key beside the expire worker
NextLate ==
    \/ ZAddCmd
    \/ ClientCommit
    \/ ClientReply
    \/ ReaperBegin
    \/ ReaperCommit
    \/ GCWorker
    \/ Tick

SpecLate == InitLate /\ [][NextLate]_vars

\* ------------------------------------------------------------------------
\* Reads of a String whose expiry passes, with and without the expire worker
\* ------------------------------------------------------------------------
InitRead ==
    /\ store = EmptyStore
    /\ clock = 1
    /\ cli = IdleCli
    /\ rtx = IdleRtx
    /\ lastExpireEndTs = 0
    /\ lim = IdleLim
    /\ conn = IdleConn
    /\ ldr = IdleLdr
    /\ cfg = [keys |-> {"k"}, scoreArgs |-> {}, members |-> {},
              vals |-> {<<"1">>, <<>>}, dangling |-> {<<>>},
              ctors |-> {"NewString", "GetString"}, ids |-> {"id1", "id2"},
              maxClock |-> MaxClock + 1, maxExpire |-> MaxExpire]

NextRead ==
    \/ SetCmd
    \/ GetCmd
    \/ ClientCommit
    \/ ClientReply
    \/ ReaperBegin
    \/ ReaperCommit
    \/ Tick

SpecRead == InitRead /\ [][NextRead]_vars

\* ------------------------------------------------------------------------
\* GETRANGE and INCRBY on a String
\* ------------------------------------------------------------------------
InitString ==
    /\ store = EmptyStore
    /\ clock = 1
    /\ cli = IdleCli
    /\ rtx = IdleRtx
    /\ lastExpireEndTs = 0
    /\ lim = IdleLim
    /\ conn = IdleConn
    /\ ldr = IdleLdr
    /\ cfg = [keys |-> {"k"}, scoreArgs |-> {}, members |-> {},
              vals |-> {<<"a", "b", "c">>, <<"7">>, <<"8">>, <<"-", "8">>,
                        <<>>},
              deltas |-> {1, 0 - 1},
              dangling |-> {<<>>},
              ctors |-> {"NewString", "GetString"}, ids |-> {"id1", "id2"},
              maxClock |-> MaxClock, maxExpire |-> MaxExpire]

NextString ==
    \/ SetCmd
    \/ GetCmd
    \/ GetRangeCmd
    \/ IncrByCmd
    \/ ClientCommit
    \/ ClientReply
    \/ Tick

SpecString == InitString /\ [][NextString]_vars

\* ------------------------------------------------------------------------
\* A String whose expiry is set, replaced and cleared, and the expire worker
\* with its KV errors
\* ------------------------------------------------------------------------
InitWorker ==
    /\ store = EmptyStore
    /\ clock = 1
    /\ cli = IdleCli
    /\ rtx = IdleRtx
    /\ lastExpireEndTs = 0
    /\ lim = IdleLim
    /\ conn = IdleConn
    /\ ldr = IdleLdr
    /\ cfg = [keys |-> {"k"}, scoreArgs |-> {}, members |-> {},
              vals |-> {<<"1">>}, dangling |-> {<<>>},
              ctors |-> {"NewString", "GetString"}, ids |-> {"id1", "id2"},
              maxClock |-> MaxClock, maxExpire |-> MaxExpire]

NextWorker ==
    \/ SetCmd
    \/ AppendCmd
    \/ ClientCommit
    \/ ClientReply
    \/ ReaperBegin
    \/ ReaperCommit
    \/ ReaperKVError
    \/ Tick

SpecWorker == InitWorker /\ [][NextWorker]_vars

\* ------------------------------------------------------------------------
\* Strings of two keys of one expire bucket that are set with an expiry and
\* replaced, and the expire worker with its batch limit
\* ------------------------------------------------------------------------
InitBatch ==
    /\ store = EmptyStore
    /\ clock = 1
    /\ cli = IdleCli
    /\ rtx = IdleRtx
    /\ lastExpireEndTs = 0
    /\ lim = IdleLim
    /\ conn = IdleConn
    /\ ldr = IdleLdr
    /\ cfg = [keys |-> Keys, scoreArgs |-> {}, members |-> {},
              vals |-> {<<"1">>}, dangling |-> {<<>>},
              ctors |-> {"NewString"}, ids |-> IDs,
              maxClock |-> MaxClock + 1, maxExpire |-> MaxExpire]

NextBatch ==
    \/ SetCmd
    \/ ClientCommit
    \/ ClientReply
    \/ ReaperBegin
    \/ ReaperCommit
    \/ ReaperKVError
    \/ Tick

SpecBatch == InitBatch /\ [][NextBatch]_vars

\* ------------------------------------------------------------------------
\* The expire worker of a node that stays leader, without KV errors other
\* than commit conflicts: startExpire runs a tick at every tick of its ticker
\* ------------------------------------------------------------------------
InitLive ==
    /\ store = EmptyStore
    /\ clock = 1
    /\ cli = IdleCli
    /\ rtx = IdleRtx
    /\ lastExpireEndTs = 0
    /\ lim = IdleLim
    /\ conn = IdleConn
    /\ ldr = IdleLdr
    /\ cfg = [keys |-> {"k"}, scoreArgs |-> {}, members |-> {},
              vals |-> {<<"1">>}, dangling |-> {<<>>},
              ctors |-> {"NewString"}, ids |-> {"id1", "id2"},
              maxClock |-> MaxClock + 1, maxExpire |-> MaxExpire]

NextLive ==
    \/ SetCmd
    \/ ClientCommit
    \/ ClientReply
    \/ ReaperBegin
    \/ ReaperCommit
    \/ Tick

SpecLive ==
    /\ InitLive
    /\ [][NextLive]_vars
    /\ WF_vars(ReaperBegin)
    /\ WF_vars(ReaperCommit)

\* ------------------------------------------------------------------------
\* Warmup of the limiter registry: CheckLimit in its two steps, the
\* lock-free Load and, after a miss, init under l.lock
\* ------------------------------------------------------------------------
\* the connection goes on with the limiter it got; a nil limiter lets the
\* command through
Checked(l, c, limiterName, cl, size) ==
    [l EXCEPT !.gr[c] = [pc |-> IF cl.isNil THEN "idle" ELSE "qpsLock",
                         name |-> limiterName,
                         size |-> IF cl.isNil THEN 0 ELSE size,
                         wake |-> 0,
                         applied |-> Applied(cl)]]

\* CheckLimit: l.limiters.Load(limiterName)
CheckLimitLoad(c) ==
    /\ lim.gr[c].pc = "idle"
    /\ lim.n < MaxCommands
    /\ \E namespace \in Namespaces, cmdName \in LimitedCmds,
          cmdArgs \in LimitedArgs :
         LET limiterName == LimiterName(namespace, cmdName)
             l == [lim EXCEPT !.n = @ + 1]
         IN lim' = IF limiterName \in DOMAIN lim.limiters
                   THEN Checked(l, c, limiterName, lim.limiters[limiterName],
                                cmdSize(cmdName, cmdArgs))
                   ELSE [l EXCEPT !.gr[c].pc = "init",
                                  !.gr[c].name = limiterName,
                                  !.gr[c].size = cmdSize(cmdName, cmdArgs)]
    /\ UNCHANGED <<store, clock, cli, rtx, lastExpireEndTs, cfg, conn, ldr>>

\* CheckLimit after a miss: l.init(limiterName)
CheckLimitInit(c) ==
    /\ lim.gr[c].pc = "init"
    /\ LET r == init(lim, lim.gr[c].name, clock)
       IN lim' = Checked(r.l, c, lim.gr[c].name, r.cl, lim.gr[c].size)
    /\ UNCHANGED <<store, clock, cli, rtx, lastExpireEndTs, cfg, conn, ldr>>

NextWarmup ==
    \/ \E c \in Conns : CheckLimitLoad(c)
    \/ \E c \in Conns : CheckLimitInit(c)
    \/ \E c \in Conns : WaitTimeLock(c)
    \/ \E c \in Conns : WaitTime(c)
    \/ \E c \in Conns : Wake(c)
    \/ \E c \in Conns : CountLock(c)
    \/ \E c \in Conns : Count(c)
    \/ SyncNewLimit
    \/ Tick

SpecWarmup == InitLimiter /\ [][NextWarmup]_vars

\* ------------------------------------------------------------------------
\* The balance loop beside the sync loop: runReportAndBalance visits the
\* registered limiters one after the other; the limits in the store are
\* set while the server runs. A connection registers the name it asks for;
\* its way through checkLimit is followed in the specifications above
\* ------------------------------------------------------------------------
MaxTicks == 2
\* the averageQps of a limiter that counted commands: below and above
\* the limits in use
QpsRates == {1, 2}
\* the live status records of the other nodes: none, or one of a node that
\* uses its share
PeerStatus ==
    {<<>>, <<[weight |-> MAXIMUM_WEIGHT, qps |-> 2]>>}
\* the limits of n1@get are set and removed while the server runs
BalanceKeys == {"qps", "rate"} \X {LimiterName("n1", "get")}

\* a limit is set or removed in the store
SetLimitKey ==
    /\ \E k \in BalanceKeys :
         \E v \in LimitChoice(k) :
           /\ v # lim.kv[k]
           /\ lim' = [lim EXCEPT !.kv[k] = v]
    /\ UNCHANGED <<store, clock, cli, rtx, lastExpireEndTs, cfg, conn, ldr>>

\* reportLocalStat and balanceLimit up to the skipBalance test: the tick
\* returns (no qps limit), clears the flag, or rebalances
BalanceGet(name) ==
    /\ lim.bal.pc = "idle"
    /\ name \in DOMAIN lim.limiters
    /\ ~lim.limiters[name].isNil
    /\ Unlocked(lim.limiters[name])
    /\ LET cl == lim.limiters[name]
       IN \E averageQps \in (IF cl.totalCommandsCount = 0 THEN {0}
                             ELSE QpsRates) :
            lim' = [lim EXCEPT
                      !.limiters[name] =
                          [reportLocalStat(cl) EXCEPT
                             !.ticks = IF @ < MaxTicks THEN @ + 1 ELSE @],
                      !.bal = [pc |-> IF cl.qpsLw.globalLimit <= 0 THEN "return"
                                      ELSE IF cl.skipBalance THEN "clear"
                                      ELSE "rebalance",
                               name |-> name, ord |-> cl.ticks,
                               averageQps |-> averageQps, orphan |-> NilCl]]
    /\ UNCHANGED <<store, clock, cli, rtx, lastExpireEndTs, cfg, conn, ldr>>

\* balanceLimit: the return of a limiter without a qps limit
BalanceReturn ==
    /\ lim.bal.pc = "return"
    /\ lim' = [lim EXCEPT !.bal = IdleBal]
    /\ UNCHANGED <<store, clock, cli, rtx, lastExpireEndTs, cfg, conn, ldr>>

\* balanceLimit: cl.setSkipBalance(false) and the return
BalanceClear ==
    /\ lim.bal.pc = "clear"
    /\ IF lim.bal.orphan.isNil
       THEN /\ lim.limiters[lim.bal.name].lock = NoConn
            /\ lim' = [lim EXCEPT !.limiters[lim.bal.name].skipBalance = FALSE,
                                  !.bal = IdleBal]
       ELSE lim' = [lim EXCEPT !.bal = IdleBal]
    /\ UNCHANGED <<store, clock, cli, rtx, lastExpireEndTs, cfg, conn, ldr>>

\* balanceLimit: the scan of the status records, the new weight, the status
\* record of this node and updatePercent
BalanceRebalance ==
    /\ lim.bal.pc = "rebalance"
    /\ \E err \in KVErrors :
         IF lim.bal.orphan.isNil
         THEN /\ Unlocked(lim.limiters[lim.bal.name])
              /\ LET r == balanceLimit(lim.limiters[lim.bal.name],
                                       lim.bal.averageQps, lim.peers, clock,
                                       err)
                 IN lim' = [lim EXCEPT
                              !.limiters[lim.bal.name] = r.cl,
                              !.status = IF r.committed
                                         THEN Put(@, lim.bal.name, r.status)
                                         ELSE @,
                              !.bal = IdleBal]
         ELSE LET r == balanceLimit(lim.bal.orphan, lim.bal.averageQps,
                                    lim.peers, clock, err)
              IN lim' = [lim EXCEPT
                           !.status = IF r.committed
                                      THEN Put(@, lim.bal.name, r.status)
                                      ELSE @,
                           !.bal = IdleBal]
    /\ UNCHANGED <<store, clock, cli, rtx, lastExpireEndTs, cfg, conn, ldr>>

InitBalance ==
    /\ store = EmptyStore
    /\ clock = 1
    /\ cli = IdleCli
    /\ rtx = IdleRtx
    /\ lastExpireEndTs = 0
    /\ cfg = [keys |-> {}, scoreArgs |-> {}, members |-> {}, vals |-> {},
              dangling |-> {}, ctors |-> {}, ids |-> {},
              maxClock |-> MaxClock, maxExpire |-> 0]
    /\ \E kv \in [LimitKeys -> LimitValues], peers \in PeerStatus :
         /\ \A k \in LimitKeys :
              kv[k] \in IF k \in BalanceKeys THEN LimitChoice(k)
                        ELSE {NilLimitData}
         /\ lim = [IdleLim EXCEPT !.kv = kv, !.peers = peers]
    /\ conn = IdleConn
    /\ ldr = IdleLdr

NextBalance ==
    \/ CheckLimit("c1")
    \/ SyncNewLimit
    \/ SetLimitKey
    \/ \E ns \in Namespaces, cmd \in LimitedCmds :
         BalanceGet(LimiterName(ns, cmd))
    \/ BalanceReturn
    \/ BalanceClear
    \/ BalanceRebalance
    \/ Tick

SpecBalance == InitBalance /\ [][NextBalance]_vars

\* ------------------------------------------------------------------------
\* The limiter of the pair n1@get on the titan nodes: every node registers
\* the limiter at its first command of the pair, syncs it with the limits
\* in the store and balances it against the status records of the others
\* ------------------------------------------------------------------------
TitanName == LimiterName("n1", "get")
\* conf.InitialPercent of the nodes (0.33)
TitanInitialPercent == Percent(1, 3)
\* the averageQps a tick may observe
QpsInputs == {0, 3, 4}
\* the limits of the pair: a qps limit, a lower one, a rate limit, a qps
\* limit beside a rate value of limit 0
TitanLimits ==
    {[qps |-> LimitData(4, 2), rate |-> NilLimitData],
     [qps |-> LimitData(2, 2), rate |-> NilLimitData],
     [qps |-> NilLimitData, rate |-> LimitData(5, 5)],
     [qps |-> LimitData(4, 2), rate |-> LimitData(0, 5)]}
TitanKv(d) ==
    [k \in LimitKeys |-> IF k = <<"qps", TitanName>> THEN d.qps
                         ELSE IF k = <<"rate", TitanName>> THEN d.rate
                         ELSE NilLimitData]

\* the limits of the pair are changed in the store
SetTitanLimits ==
    /\ \E d \in TitanLimits :
         /\ lim.kv # TitanKv(d)
         /\ lim' = [lim EXCEPT !.kv = TitanKv(d)]
    /\ UNCHANGED <<store, clock, cli, rtx, lastExpireEndTs, cfg, conn, ldr>>

\* the first command of the pair on a node: LimitersMgr.init
TitanInit(ip) ==
    /\ ip \notin DOMAIN lim.titans
    /\ lim' = [lim EXCEPT
                 !.titans = Put(@, ip,
                     NewCommandLimiterOf(getLimit(lim, TitanName, TRUE),
                                         getLimit(lim, TitanName, FALSE),
                                         TitanInitialPercent, clock))]
    /\ UNCHANGED <<store, clock, cli, rtx, lastExpireEndTs, cfg, conn, ldr>>

\* one round of startSyncNewLimit on a node; no wildcard limit is set
TitanSync(ip) ==
    /\ ip \in DOMAIN lim.titans
    /\ lim' = [lim EXCEPT
                 !.titans[ip] =
                     SyncLimiter(@, getLimit(lim, TitanName, TRUE),
                                 getLimit(lim, TitanName, FALSE),
                                 TitanInitialPercent, clock)]
    /\ UNCHANGED <<store, clock, cli, rtx, lastExpireEndTs, cfg, conn, ldr>>

\* runReportAndBalance on a node: reportLocalStat and balanceLimit up to
\* the assignment of cl.weight
TitanBegin(ip) ==
    /\ lim.tick.pc = "idle"
    /\ ip \in DOMAIN lim.titans
    /\ ~lim.titans[ip].isNil
    /\ LET cl == reportLocalStat(lim.titans[ip])
           peers == scanStatusInOtherTitan(lim.statuses, ip, clock)
       IN IF cl.qpsLw.globalLimit <= 0
          THEN lim' = [lim EXCEPT !.titans[ip] = cl, !.tick = IdleTick]
          ELSE IF cl.skipBalance
          THEN lim' = [lim EXCEPT
                         !.titans[ip] = [cl EXCEPT !.skipBalance = FALSE],
                         !.tick = IdleTick]
          ELSE \E averageQps \in QpsInputs, err \in {"none", "begin", "scan"} :
                 lim' = IF err # "none"
                        THEN [lim EXCEPT !.titans[ip] = cl,
                                         !.tick = [IdleTick EXCEPT !.err = err]]
                        ELSE [lim EXCEPT
                                !.titans[ip] =
                                    [cl EXCEPT !.weight =
                                       balanceWeight(cl, averageQps, peers)],
                                !.tick = [pc |-> "write", ip |-> ip,
                                          averageQps |-> averageQps,
                                          err |-> "none"]]
    /\ UNCHANGED <<store, clock, cli, rtx, lastExpireEndTs, cfg, conn, ldr>>

\* balanceLimit from the status record to its return
TitanWrite ==
    /\ lim.tick.pc = "write"
    /\ \E err \in {"none", "set", "commit"} :
         LET ip == lim.tick.ip
             r == balanceCommit(lim.titans[ip], lim.tick.averageQps,
                                scanStatusInOtherTitan(lim.statuses, ip, clock),
                                clock)
         IN lim' = IF err # "none"
                   THEN [lim EXCEPT !.tick = [IdleTick EXCEPT !.err = err]]
                   ELSE [lim EXCEPT !.titans[ip] = r.cl,
                                    !.statuses = Put(@, ip, r.status),
                                    !.tick = IdleTick]
    /\ UNCHANGED <<store, clock, cli, rtx, lastExpireEndTs, cfg, conn, ldr>>

InitTitans ==
    /\ store = EmptyStore
    /\ clock = 1
    /\ cli = IdleCli
    /\ rtx = IdleRtx
    /\ lastExpireEndTs = 0
    /\ cfg = [keys |-> {}, scoreArgs |-> {}, members |-> {}, vals |-> {},
              dangling |-> {}, ctors |-> {}, ids |-> {},
              maxClock |-> MaxClock, maxExpire |-> 0]
    /\ \E d \in TitanLimits : lim = [IdleLim EXCEPT !.kv = TitanKv(d)]
    /\ conn = IdleConn
    /\ ldr = IdleLdr

\* one node whose limits are changed while it runs, beside the status
\* record of another node
PeerRecords ==
    {EmptyMap} \cup
    {Put(EmptyMap, "ip2", [weight |-> w, qps |-> q, time |-> 1]) :
        w \in {MINIMUM_WEIGHT, MAXIMUM_WEIGHT}, q \in QpsInputs}

InitOneTitan ==
    /\ store = EmptyStore
    /\ clock = 1
    /\ cli = IdleCli
    /\ rtx = IdleRtx
    /\ lastExpireEndTs = 0
    /\ cfg = [keys |-> {}, scoreArgs |-> {}, members |-> {}, vals |-> {},
              dangling |-> {}, ctors |-> {}, ids |-> {},
              maxClock |-> MaxClock + 1, maxExpire |-> 0]
    /\ \E d \in TitanLimits, statuses \in PeerRecords :
         lim = [IdleLim EXCEPT !.kv = TitanKv(d), !.statuses = statuses]
    /\ conn = IdleConn
    /\ ldr = IdleLdr

NextOneTitan ==
    \/ SetTitanLimits
    \/ TitanInit("ip1")
    \/ TitanSync("ip1")
    \/ TitanBegin("ip1")
    \/ TitanWrite
    \/ Tick

SpecOneTitan == InitOneTitan /\ [][NextOneTitan]_vars

\* the nodes while the limits in the store stay as they are
NextStable ==
    \/ \E ip \in Titans : TitanInit(ip)
    \/ \E ip \in Titans : TitanSync(ip)
    \/ \E ip \in Titans : TitanBegin(ip)
    \/ TitanWrite
    \/ Tick

SpecStable == InitTitans /\ [][NextStable]_vars

\* ------------------------------------------------------------------------
\* Leader election: on every node a lease refresher (setExpireIsLeader) and
\* an expire worker (startExpire) that share the node's LeaderStatus. The
\* tick of node n1 is the tick of the worker above; of the tick of another
\* node only its extent in time is followed
\* ------------------------------------------------------------------------
\* one tick of setExpireIsLeader's ticker; conf.Disable and an error of
\* isLeader both end in setIsLeader(false)
Refresh(n) ==
    /\ \E err \in BOOLEAN :
         LET r == isLeader(ldr.lease, n, clock)
         IN ldr' = [ldr EXCEPT
                       !.lease = IF err THEN @ ELSE r.lease,
                       !.node[n] = setIsLeader(@, ~err /\ r.isLeader)]
    /\ UNCHANGED <<store, clock, cli, rtx, lastExpireEndTs, cfg, lim, conn>>

\* the worker's ticker fires and the worker calls getIsLeader
WorkerTicker(n) ==
    /\ ldr.node[n].wpc = "ticker"
    /\ ldr' = [ldr EXCEPT !.node[n] = condWait(@)]
    /\ UNCHANGED <<store, clock, cli, rtx, lastExpireEndTs, cfg, lim, conn>>

\* getIsLeader returns ls.isLeader; a leader goes on to runExpire (db.Begin
\* and the scan of the tick), any other node back to its ticker
WorkerWake(n) ==
    /\ ldr.node[n].wpc = "woken"
    /\ IF ldr.node[n].isLeader
       THEN /\ ldr' = [ldr EXCEPT
                          !.node[n].wpc = "run",
                          !.node[n].ticks = IF @ < MaxSets THEN @ + 1 ELSE @]
            /\ IF n = "n1"
               THEN /\ rtx.phase = "idle"
                    /\ LET r == runExpire(store, BatchLimit, lastExpireEndTs, clock)
                       IN rtx' = [phase |-> "pending", t |-> Buffered(r.t),
                                  endTs |-> r.thisExpireEndTs,
                                  doomed |-> FALSE, committed |-> FALSE]
               ELSE UNCHANGED rtx
       ELSE /\ ldr' = [ldr EXCEPT !.node[n].wpc = "ticker"]
            /\ UNCHANGED rtx
    /\ UNCHANGED <<store, clock, cli, lastExpireEndTs, cfg, lim, conn>>

\* runExpire returns (txn.Commit of the tick)
WorkerDone(n) ==
    /\ ldr.node[n].wpc = "run"
    /\ ldr' = [ldr EXCEPT !.node[n].wpc = "ticker"]
    /\ IF n = "n1"
       THEN /\ rtx.phase = "pending"
            /\ store' = IF rtx.doomed THEN store ELSE Commit(store, rtx.t)
            /\ rtx' = IdleRtx
            /\ lastExpireEndTs' = rtx.endTs
       ELSE UNCHANGED <<store, rtx, lastExpireEndTs>>
    /\ UNCHANGED <<clock, cli, cfg, lim, conn>>

InitLeader ==
    /\ store = EmptyStore
    /\ clock = 1
    /\ cli = IdleCli
    /\ rtx = IdleRtx
    /\ lastExpireEndTs = 0
    /\ lim = IdleLim
    /\ conn = IdleConn
    /\ ldr = IdleLdr
    /\ cfg = [keys |-> {}, scoreArgs |-> {}, members |-> {},
              vals |-> {}, dangling |-> {<<>>},
              ctors |-> {}, ids |-> {},
              maxClock |-> MaxClock + 1, maxExpire |-> MaxExpire]

NextLeader ==
    \/ \E n \in Nodes : Refresh(n)
    \/ \E n \in Nodes : WorkerTicker(n)
    \/ \E n \in Nodes : WorkerWake(n)
    \/ \E n \in Nodes : WorkerDone(n)
    \/ Tick

\* the refresher loops keep ticking and a woken worker is scheduled
SpecLeader ==
    /\ InitLeader
    /\ [][NextLeader]_vars
    /\ \A n \in Nodes : WF_vars(Refresh(n)) /\ WF_vars(WorkerWake(n))

\* ------------------------------------------------------------------------
\* Properties of the ZSet commands
\* ------------------------------------------------------------------------
\* the client's last command, by name, has committed
Done(name) == cli.phase = "done" /\ cli.cmd.name = name /\ cli.committed

ZSetKeys == {k \in DOMAIN store.meta : store.meta[k].Type = ObjectZSet}
\* the member subkeys and the score-index entries of an object
MemberKeys(st, id) == {dk \in DOMAIN st.data : dk[1] = id}
ScoreKeys(st, id) == {sk \in st.score : sk[1] = id}
\* what ZCARD replies on the committed store
ZCardOf(key) == ZCard(Begin(store), key, ZeroID).reply.n

\* C1: after every commit, meta.len (what ZCARD returns) equals the number of
\* member subkeys of the object and the number of its score-index entries.
C1_LenMatchesMembers ==
    \A k \in ZSetKeys :
        /\ store.meta[k].Len = Cardinality(MemberKeys(store, store.meta[k].ID))
        /\ store.meta[k].Len = Cardinality(ScoreKeys(store, store.meta[k].ID))
        /\ ZCardOf(k) = store.meta[k].Len
\* a ZREM has removed a member of a set that keeps another one
C1_Witness ==
    /\ Done("ZREM") /\ cli.reply.n = 1
    /\ \E k \in ZSetKeys : store.meta[k].Len >= 1 /\ k = cli.cmd.key

\* C2: member subkeys and score-index entries are in one-to-one
\* correspondence: the score-index entries of an object are exactly the
\* (score of m, m) for its members m.
C2_MemberScoreBijection ==
    \A k \in ZSetKeys :
        LET id == store.meta[k].ID
        IN ScoreKeys(store, id) =
              {<<id, store.data[dk], dk[2]>> : dk \in MemberKeys(store, id)}
\* a ZADD has changed the score of an existing member (it deleted the old
\* score-index entry and wrote the new one)
C2_Witness ==
    /\ Done("ZADD") /\ cli.reply.n = 0
    /\ \E sk1 \in cli.t.w.score, sk2 \in cli.t.w.score :
          sk1[3] = sk2[3] /\ sk1[2] # sk2[2]
    /\ store.meta[cli.cmd.key].Len >= 2

\* the order of the score index: by encoded score, then by member
EntryLess(e1, m1, e2, m2) ==
    e1 < e2 \/ (e1 = e2 /\ MemberRank(m1) < MemberRank(m2))
\* the 0-based rank of a member subkey in its object
RankOf(st, dk) ==
    Cardinality({d2 \in MemberKeys(st, dk[1]) :
                    EntryLess(st.data[d2], d2[2], st.data[dk], dk[2])})
MemberAt(st, id, r) == (CHOOSE dk \in MemberKeys(st, id) : RankOf(st, dk) = r)[2]
ScoreAt(st, id, r) ==
    FormatFloat(DecodeFloat64(st.data[<<id, MemberAt(st, id, r)>>]))
\* the indices after resolving negative ones against len
ResolveStart(start, len) == IF start < 0 THEN Max(len + start, 0) ELSE start
ResolveStop(stop, len) == IF stop < 0 THEN len + stop ELSE stop
\* the members (with scores) at ranks lo..hi, ascending
RanksAsc(st, id, lo, hi, withScore) ==
    IF withScore
    THEN [i \in 1..(2 * (hi - lo + 1)) |->
             IF i % 2 = 1 THEN MemberAt(st, id, lo + (i - 1) \div 2)
             ELSE ScoreAt(st, id, lo + (i - 1) \div 2)]
    ELSE [i \in 1..(hi - lo + 1) |-> MemberAt(st, id, lo + i - 1)]

\* C3: ZRANGE resolves negative indices against meta.len, replies empty iff
\* start > stop or start >= len, and otherwise replies the members at ranks
\* start..min(stop, len-1) in ascending (encoded score, member) order, each
\* followed by its score under WITHSCORES.
C3_ZRange ==
    Done("ZRANGE") =>
        LET k == cli.cmd.key
            len == IF k \in ZSetKeys THEN store.meta[k].Len ELSE 0
            lo == ResolveStart(cli.cmd.start, len)
            hi == ResolveStop(cli.cmd.stop, len)
        IN /\ cli.reply.kind = "array"
           /\ (cli.reply.items = <<>>) <=> (lo > hi \/ lo >= len)
           /\ ~(lo > hi \/ lo >= len) =>
                 cli.reply.items = RanksAsc(store, store.meta[k].ID, lo,
                                            Min(hi, len - 1), cli.cmd.withScore)
\* a ZRANGE ... WITHSCORES with a negative stop has replied two of three members
C3_Witness ==
    /\ Done("ZRANGE") /\ cli.cmd.withScore /\ cli.cmd.stop < 0
    /\ cli.cmd.start = 1
    /\ Len(cli.reply.items) = 4
    /\ store.meta[cli.cmd.key].Len = 3

\* the reply of ZRANGE key 0 -1 on the committed store
FullRange(key, withScore) ==
    zAnyOrderRange(Begin(store), key, 0, 0 - 1, withScore, TRUE, ZeroID).reply.items
\* C4: ZREVRANGE replies the elements at ranks start..stop of the exact
\* reverse of ZRANGE key 0 -1, and under WITHSCORES every pair is
\* (member, score).
C4_ZRevRange ==
    Done("ZREVRANGE") =>
        LET k == cli.cmd.key
            full == FullRange(k, FALSE)
            scores == FullRange(k, TRUE)
            len == Len(full)
            lo == ResolveStart(cli.cmd.start, len)
            hi == Min(ResolveStop(cli.cmd.stop, len), len - 1)
            n == IF lo > hi \/ lo >= len THEN 0 ELSE hi - lo + 1
            \* the 1-based position in full of the element of descending rank r
            pos(r) == len - r
        IN cli.reply.items =
              IF cli.cmd.withScore
              THEN [i \in 1..(2 * n) |->
                       IF i % 2 = 1 THEN full[pos(lo + (i - 1) \div 2)]
                       ELSE scores[2 * pos(lo + (i - 1) \div 2)]]
              ELSE [i \in 1..n |-> full[pos(lo + i - 1)]]
\* a ZREVRANGE ... WITHSCORES has replied two of three members
C4_Witness ==
    /\ Done("ZREVRANGE") /\ cli.cmd.withScore
    /\ cli.cmd.start = 1
    /\ Len(cli.reply.items) = 4
    /\ store.meta[cli.cmd.key].Len = 3

\* the (score, member) pairs of a ZADD command: the 0-based indices of the scores
PairIdx(kvs) == {i \in 0..(Len(kvs) - 2) : i % 2 = 0}
\* the pair at i is the first one that names its member
FirstOf(kvs, i) == \A j \in PairIdx(kvs) : j < i => kvs[j + 2] # kvs[i + 2]
\* what ZSCORE replies on the committed store
ZScoreOf(key, member) == ZScore(Begin(store), key, member, ZeroID).reply

\* C5: after a committed ZADD, ZSCORE of a member the command named is the
\* score the command gave it, whatever score the member had before.
C5_ZScoreIsLastZAdd ==
    Done("ZADD") =>
        \A i \in PairIdx(cli.cmd.kvs) :
            FirstOf(cli.cmd.kvs, i) =>
                LET r == ZScoreOf(cli.cmd.key, cli.cmd.kvs[i + 2])
                IN /\ r.kind = "bulk"
                   /\ ParseFloat(r.s).ok
                   /\ FloatEq(ParseFloat(r.s).f, ParseFloat(cli.cmd.kvs[i + 1]).f)
\* a ZADD has given an existing member another score
C5_Witness ==
    /\ Done("ZADD") /\ cli.reply.n = 0
    /\ Len(cli.cmd.kvs) = 2
    /\ cli.t.w.data # {}
    /\ ZScoreOf(cli.cmd.key, cli.cmd.kvs[2]).s = "2"

\* the score argument is NaN or does not parse
BadScore(s) == ~ParseFloat(s).ok \/ IsNaN(ParseFloat(s).f)
\* C6: every ZADD command in which a score argument, at any pair position,
\* is NaN or does not parse replies 'value is not a valid float' and writes
\* nothing.
C6_NaNRejected ==
    (/\ cli.phase = "done" /\ cli.cmd.name = "ZADD"
     /\ Len(cli.cmd.kvs) % 2 = 0
     /\ \E i \in PairIdx(cli.cmd.kvs) : BadScore(cli.cmd.kvs[i + 1]))
    => (cli.reply = Error(ErrFloat) /\ ~cli.committed)
\* the same, for the pairs that are the first to name their member
C6_NaNRejectedFirst ==
    (/\ cli.phase = "done" /\ cli.cmd.name = "ZADD"
     /\ Len(cli.cmd.kvs) % 2 = 0
     /\ \E i \in PairIdx(cli.cmd.kvs) :
           FirstOf(cli.cmd.kvs, i) /\ BadScore(cli.cmd.kvs[i + 1]))
    => (cli.reply = Error(ErrFloat) /\ ~cli.committed)

\* C7: when one ZADD names a member in several pairs, only the first pair is
\* applied: the member's score is that of its first occurrence and the reply
\* counts the member at most once.
C7_FirstOccurrenceWins ==
    Done("ZADD") =>
        /\ \A i \in PairIdx(cli.cmd.kvs) :
              FirstOf(cli.cmd.kvs, i) =>
                 FloatEq(DecodeFloat64(store.data[<<store.meta[cli.cmd.key].ID,
                                                    cli.cmd.kvs[i + 2]>>]),
                         ParseFloat(cli.cmd.kvs[i + 1]).f)
        /\ cli.reply.n <= Cardinality({cli.cmd.kvs[i + 2] : i \in PairIdx(cli.cmd.kvs)})
\* a ZADD has named one member twice with different scores
C7_Witness ==
    /\ Done("ZADD") /\ Len(cli.cmd.kvs) = 4
    /\ cli.cmd.kvs[2] = cli.cmd.kvs[4]
    /\ cli.cmd.kvs[1] = "1" /\ cli.cmd.kvs[3] = "2"
    /\ cli.reply.n = 1

\* C8: no ZSet meta key with len = 0 exists in the store.
C8_NoEmptyZSetMeta ==
    \A k \in ZSetKeys : store.meta[k].Len # 0

\* ------------------------------------------------------------------------
\* Properties of the expire index
\* ------------------------------------------------------------------------
\* an object with an expiry has the expire-index entry (expire_at, key) -> id
HasOwnEntry(st, k) ==
    st.meta[k].ExpireAt > 0 =>
        /\ expireKey(k, st.meta[k].ExpireAt) \in DOMAIN st.expire
        /\ st.expire[expireKey(k, st.meta[k].ExpireAt)] = st.meta[k].ID
C9_OwnEntry == \A k \in DOMAIN store.meta : HasOwnEntry(store, k)

\* a step that changes the expiry of a key's object removes the entry of the
\* old expiry
RewriteMovesEntry ==
    \A k \in DOMAIN store.meta :
        LET old == store.meta[k].ExpireAt
        IN (/\ old > 0
            /\ (k \notin DOMAIN store'.meta \/ store'.meta[k].ExpireAt # old))
           => expireKey(k, old) \notin DOMAIN store'.expire

\* C9: in every committed state an object with expire_at > 0 has the
\* expire-index entry of its meta key with timestamp meta.expire_at and
\* value meta.id, and an operation that rewrites the expiry deletes the old
\* entry in the transaction that inserts the new one.
C9_ExpireIndexFollowsMeta == [][C9_OwnEntry' /\ RewriteMovesEntry]_vars

\* ------------------------------------------------------------------------
\* Properties of the expire worker
\* ------------------------------------------------------------------------
\* the tick in flight commits
ReaperCommits == rtx.phase = "pending" /\ ~rtx.doomed /\ rtx'.phase = "idle"
\* the expire-index entries the tick in flight has processed
Processed == rtx.t.w.expire
\* an entry whose key holds an object of another id
Stale(st, ek) ==
    /\ ek \in DOMAIN st.expire
    /\ ek[2] \in DOMAIN st.meta
    /\ st.meta[ek[2]].ID # st.expire[ek]

\* C10: when a tick commits, a key whose current meta carries an id that no
\* processed entry of the key names keeps its meta unchanged; every
\* processed entry of an older id is removed and its id handed to GC; and
\* the tick hands to GC only ids of the entries it processed.
C10_ReaperSparesRecreated ==
    [][ReaperCommits =>
         /\ \A k \in DOMAIN store.meta :
               (\A ek \in Processed :
                    ek[2] = k => store.expire[ek] # store.meta[k].ID)
               => (k \in DOMAIN store'.meta /\ store'.meta[k] = store.meta[k])
         /\ \A ek \in Processed :
               Stale(store, ek) =>
                  /\ store.expire[ek] \in store'.gc
                  /\ ek \notin DOMAIN store'.expire
         /\ store'.gc \ store.gc \subseteq {store.expire[ek] : ek \in Processed}
      ]_vars
\* a tick that processed the entry of a replaced object is about to commit
\* while the key holds a sorted set of another id
C10_Witness ==
    /\ rtx.phase = "pending" /\ ~rtx.doomed
    /\ \E ek \in Processed :
          /\ Stale(store, ek)
          /\ store.expire[ek] \in rtx.t.w.gc
          /\ store.meta[ek[2]].Type = ObjectZSet
          /\ store.meta[ek[2]].Len > 0

\* a tick of the expire worker begins: runExpire scans and buffers its writes
ReaperScans == rtx.phase = "idle" /\ rtx'.phase = "pending"
\* the tick that begins removes the object of key k, its expire-index entry
\* and, for a sorted set, hands the data prefix of its id to GC
Reaps(k) ==
    /\ k \in rtx'.t.w.meta /\ k \notin DOMAIN rtx'.t.st.meta
    /\ expireKey(k, store.meta[k].ExpireAt) \in rtx'.t.w.expire
    /\ expireKey(k, store.meta[k].ExpireAt) \notin DOMAIN rtx'.t.st.expire
    /\ store.meta[k].Type = ObjectZSet => store.meta[k].ID \in rtx'.t.w.gc
\* the clock has passed the expiry of the object of key k
Overdue(k) == store.meta[k].ExpireAt > 0 /\ store.meta[k].ExpireAt < clock

\* C11: once the clock has passed a key's expire_at, the next tick of the
\* expire worker deletes the key's meta and its expire-index entry and hands
\* the data prefix of its id to GC, however many keys are overdue.
C11_OverdueReapedByNextTick ==
    [][ReaperScans => \A k \in DOMAIN store.meta : Overdue(k) => Reaps(k)]_vars

\* ------------------------------------------------------------------------
\* Properties of the String operations
\* ------------------------------------------------------------------------
\* the stored object of key k is a String whose expiry the clock has passed
ExpiredString(k) ==
    /\ k \in DOMAIN store.meta
    /\ store.meta[k].Type = ObjectString
    /\ store.meta[k].ExpireAt > 0 /\ store.meta[k].ExpireAt < clock

\* C12: a String whose meta has 0 < expire_at < now is reported as not found
\* by GetString and Get, whether or not the expire worker has removed it.
C12_ExpiredStringNotFound ==
    \A k \in cfg.keys :
        ExpiredString(k) =>
            LET g == GetString(Begin(store), k, clock)
            IN /\ g.err = NoErr
               /\ ~Exist(g.str)
               /\ StringGet(g.str).err = ErrKeyNotFound
\* a GET has replied nil for a String that is still stored, with its
\* expire-index entry, after its expiry
C12_Witness ==
    /\ Done("GET") /\ cli.reply = NullBulkString
    /\ ExpiredString(cli.cmd.key)
    /\ Len(store.meta[cli.cmd.key].Value) > 0
    /\ expireKey(cli.cmd.key, store.meta[cli.cmd.key].ExpireAt) \in DOMAIN store.expire

\* ------------------------------------------------------------------------
\* C13: the limiter of a command
\* ------------------------------------------------------------------------
\* the limit the stored configuration gives a name: its own, and the
\* wildcard's when it has none
ExpectedLimit(limiterName, isQps) ==
    IF Configured(getLimit(lim, limiterName, isQps))
    THEN getLimit(lim, limiterName, isQps)
    ELSE IF Configured(getLimit(lim, getAllmatchLimiterName(limiterName),
                                isQps))
         THEN getLimit(lim, getAllmatchLimiterName(limiterName), isQps)
         ELSE NilLimitData

\* C13: every command that has passed through CheckLimit, the first of its
\* (namespace, command) pair included, met the limits configured for the
\* pair, the wildcard's limits where the pair has none, and no limit only
\* where neither is configured.
C13_ConfiguredLimitApplied ==
    \A c \in Conns :
        lim.gr[c].name # NoName =>
            lim.gr[c].applied =
                [qps |-> ExpectedLimit(lim.gr[c].name, TRUE),
                 rate |-> ExpectedLimit(lim.gr[c].name, FALSE)]

\* ------------------------------------------------------------------------
\* C14: sleeping in checkLimit
\* ------------------------------------------------------------------------
\* the connection is inside time.Sleep
Sleeping(c) == lim.gr[c].pc \in {"qpsSleep", "rateSleep"}
\* the connection holds a lock of the limiter
HoldsLockOf(c, cl) ==
    cl.lock = c \/ cl.qpsLw.lock = c \/ cl.rateLw.lock = c
\* the lock the connection is about to take
WantedLock(d) ==
    LET cl == lim.limiters[lim.gr[d].name]
    IN IF lim.gr[d].pc = "countLock" THEN cl.lock ELSE cl[LwOf(d)].lock

\* C14: a connection that sleeps in checkLimit holds none of the locks of
\* any limiter, and the lock another connection is about to take for its
\* reservation or its counter update is not held by a sleeper.
C14_SleeperHoldsNoLock ==
    \A c \in Conns :
        Sleeping(c) =>
            /\ \A n \in DOMAIN lim.limiters : ~HoldsLockOf(c, lim.limiters[n])
            /\ \A d \in Conns \ {c} :
                   lim.gr[d].pc \in {"qpsLock", "rateLock", "countLock"}
                       => WantedLock(d) # c

\* a connection made its reservation on the limiter while an earlier command
\* of another connection was asleep on that limiter with time left to sleep
C14_Witness ==
    \E c \in Conns, d \in Conns :
        /\ c # d
        /\ lim.gr[c].name = lim.gr[d].name
        /\ lim.gr[c].pc = "qpsSleep" /\ lim.gr[c].wake > clock
        /\ lim.gr[d].pc = "qpsSleep" /\ lim.gr[d].wake > lim.gr[c].wake

\* ------------------------------------------------------------------------
\* C15: unknown commands
\* ------------------------------------------------------------------------
\* the step is a round of serve that read a command
ReadsCmd == conn'.nread = conn.nread + 1
ReadsUnknown ==
    /\ ReadsCmd
    /\ Len(Head(conn.input)) > 0
    /\ ~CanExecute(Head(conn.input)[1])

\* C15: every unknown command is answered with an error (unless the write
\* fails) and adds one to the connection's counter, which no other step
\* changes; the first and the second leave the connection open and serve
\* running, the third closes the connection and ends serve.
C15_ThirdUnknownCloses ==
    [][/\ ReadsUnknown =>
            /\ conn'.unknownCmdTimes = conn.unknownCmdTimes + 1
            /\ \/ conn'.out = Append(conn.out,
                                     ErrUnKnownCommand(Head(conn.input)[1]))
               \/ conn.peerGone /\ conn'.failed /\ conn'.out = conn.out
            /\ conn'.unknownCmdTimes < 3 =>
                   ~conn'.closed /\ conn'.pc = "serve"
            /\ conn'.unknownCmdTimes = 3 =>
                   conn'.closed /\ conn'.pc = "returned"
       /\ ~ReadsUnknown => conn'.unknownCmdTimes = conn.unknownCmdTimes
       /\ conn'.unknownCmdTimes <= 3]_vars

\* three unknown commands with a known command between them have been
\* answered and the connection is closed
C15_Witness ==
    /\ conn.unknownCmdTimes = 3
    /\ conn.closed /\ conn.pc = "returned"
    /\ conn.out = <<ErrUnKnownCommand("foo"), OK, ErrUnKnownCommand("foo"),
                    ErrUnKnownCommand("foo")>>

\* ------------------------------------------------------------------------
\* C16: skipped replies
\* ------------------------------------------------------------------------
\* C16: while SkipN is not zero, a command that is read, is not empty and
\* does not itself set SkipN gets no reply written; it takes one from a positive SkipN and
\* leaves SkipN = -1 as it is.
C16_SkipDiscardsEveryReply ==
    [][(/\ ReadsCmd
        /\ conn.SkipN # 0
        /\ Len(Head(conn.input)) > 0
        /\ Head(conn.input)[1] # "client")
         => /\ conn'.out = conn.out
            /\ conn'.SkipN = IF conn.SkipN > 0 THEN conn.SkipN - 1
                              ELSE conn.SkipN]_vars

\* ------------------------------------------------------------------------
\* C17: a failed write
\* ------------------------------------------------------------------------
\* the step is a round of serve
ServeStep ==
    /\ conn' # conn
    /\ conn'.sent = conn.sent
    /\ conn'.peerGone = conn.peerGone
    /\ conn'.done = conn.done

\* C17: a write that fails marks the connection remoteClosed; from then on
\* no command is read or executed, and the next round of serve closes the
\* connection and returns with the pipelined commands left unread.
C17_NoCommandAfterFailedWrite ==
    [][/\ conn'.failed => conn'.remoteClosed
       /\ conn.remoteClosed =>
            /\ conn'.nread = conn.nread
            /\ conn'.executed = conn.executed
            /\ conn'.input = conn.input \/ ~ServeStep
            /\ ServeStep => conn'.closed /\ conn'.pc = "returned"]_vars

\* the reply of an executed command could not be written, and serve has
\* returned and left pipelined commands unread
C17_Witness ==
    /\ conn.failed /\ conn.remoteClosed
    /\ ~conn.done
    /\ conn.closed /\ conn.pc = "returned"
    /\ conn.input # <<>>
    /\ conn.nread > 0 /\ conn.executed = conn.nread

\* ------------------------------------------------------------------------
\* C18: the order of encoded scores
\* ------------------------------------------------------------------------
\* the score argument of the pair at i, and the encoded score the committed
\* store holds for the pair's member
ArgScore(i) == ParseFloat(cli.cmd.kvs[i + 1]).f
StoredScore(i) ==
    store.data[<<store.meta[cli.cmd.key].ID, cli.cmd.kvs[i + 2]>>]
\* the rank of a member in ZRANGE key 0 -1
RankIn(items, member) == CHOOSE p \in 1..Len(items) : items[p] = member
\* two pairs of a committed ZADD that name different members
ScorePairs ==
    {ij \in PairIdx(cli.cmd.kvs) \X PairIdx(cli.cmd.kvs) :
        /\ FirstOf(cli.cmd.kvs, ij[1]) /\ FirstOf(cli.cmd.kvs, ij[2])
        /\ ij[1] # ij[2]
        /\ ~IsNaN(ArgScore(ij[1])) /\ ~IsNaN(ArgScore(ij[2]))}

Starts(name) ==
    cli.phase = "idle" /\ cli'.phase = "pending" /\ cli'.cmd.name = name
\* the String the command finds
Found == GetString(Begin(store), cli'.cmd.key, clock).str
\* an index counted from the end when negative
FromEnd(i, n) == IF i < 0 THEN n + i ELSE i

\* C19: GETRANGE start end on a stored value of length n > 0 replies exactly
\* the bytes at the positions max(start, 0)..min(end, n - 1), negative
\* indices counted from the end, and the empty string when there is no such
\* position; it never fails and never replies a byte from outside the
\* value.
C19_GetRangeWithinBounds ==
    [][(Starts("GETRANGE") /\ Len(Found.Meta.Value) > 0) =>
          LET v == Found.Meta.Value
              n == Len(v)
              lo == Max(FromEnd(cli'.cmd.start, n), 0)
              hi == Min(FromEnd(cli'.cmd.stop, n), n - 1)
          IN cli'.reply = Bulk(IF lo <= hi THEN SubSeq(v, lo + 1, hi + 1)
                               ELSE <<>>)]_vars

\* ------------------------------------------------------------------------
\* C20: INCRBY
\* ------------------------------------------------------------------------
\* C20: INCRBY delta on a value that parses as the integer v replies
\* v + delta and writes its decimal form, which a Get in the same
\* transaction view returns; a key without value counts as 0; on a value
\* that does not parse it replies the integer error and writes nothing.
C20_IncrAddsDelta ==
    [][Starts("INCRBY") =>
          LET v == ParseInt(Found.Meta.Value)
              delta == cli'.cmd.start
              sum == IF Found.isNil THEN delta ELSE v.v + delta
              after == GetString(cli'.t, cli'.cmd.key, clock).str
          IN IF Found.isNil \/ v.ok
             THEN /\ cli'.reply = Integer(sum)
                  /\ StringGet(after).err = NoErr
                  /\ StringGet(after).val = FormatInt(sum)
             ELSE /\ cli'.reply = Error(ErrInteger)
                  /\ ~HasWrites(cli'.t.w)]_vars

\* ------------------------------------------------------------------------
\* The triage of doExpire
\* ------------------------------------------------------------------------
\* the meta of key k differs between two stores
MetaChanged(st1, st2, k) ==
    \/ (k \in DOMAIN st1.meta) # (k \in DOMAIN st2.meta)
    \/ k \in DOMAIN st1.meta /\ k \in DOMAIN st2.meta /\ st1.meta[k] # st2.meta[k]
\* entry ek is due and is the entry of the object that key k holds in st
Matches(st, ek, k, now) ==
    /\ ek \in DOMAIN st.expire
    /\ k \in DOMAIN st.meta
    /\ ek[2] = k
    /\ ek[1] <= now
    /\ st.expire[ek] = st.meta[k].ID
    /\ ek[1] = st.meta[k].ExpireAt

\* C21: a tick of the expire worker writes a meta key only to delete it, and
\* only for an entry it processed with ts <= now whose value is the meta's id
\* and whose ts is the meta's expire_at; when the tick commits, every other
\* meta key of the store is left as it is, and a tick that fails to commit
\* changes no meta key.
C21_MetaDeletedOnlyOnMatch ==
    [][/\ ReaperScans =>
            \A k \in rtx'.t.w.meta :
               /\ k \notin DOMAIN rtx'.t.st.meta
               /\ \E ek \in rtx'.t.w.expire : Matches(store, ek, k, clock)
       /\ (rtx.phase = "pending" /\ rtx'.phase = "idle") =>
            \A k \in Keys :
               MetaChanged(store, store', k) =>
                  /\ ~rtx.doomed
                  /\ k \notin DOMAIN store'.meta
                  /\ \E ek \in Processed : Matches(store, ek, k, clock)
      ]_vars
\* a tick is about to commit that processed a due entry of the stored
\* object's id and left the meta alone because the object's expiry had been
\* cleared
C21_Witness ==
    /\ rtx.phase = "pending" /\ ~rtx.doomed
    /\ \E ek \in Processed :
          /\ ek[2] \in DOMAIN store.meta
          /\ store.expire[ek] = store.meta[ek[2]].ID
          /\ store.meta[ek[2]].ExpireAt # ek[1]
          /\ ek[2] \notin rtx.t.w.meta

\* ------------------------------------------------------------------------
\* The value that runExpire returns
\* ------------------------------------------------------------------------
\* the commit of the tick in flight fails
ReaperCommitFails == rtx.phase = "pending" /\ rtx.doomed /\ rtx'.phase = "idle"

\* C22: a tick whose commit fails changes nothing in the store and makes
\* runExpire return 0, so that the next tick scans from the head of the
\* bucket.
C22_FailedTickReturnsZero ==
    [][ReaperCommitFails => (store' = store /\ lastExpireEndTs' = 0)]_vars

\* the scan window of a tick that begins: [lastExpireEndTs, now], from the
\* head of the bucket when lastExpireEndTs is 0
Window ==
    {ek \in DOMAIN store.expire :
        ek[1] <= clock /\ (lastExpireEndTs > 0 => ek[1] >= lastExpireEndTs)}
\* the largest timestamp of a set of entries
LastTs(P) == CHOOSE ts \in {ek[1] : ek \in P} : \A ek \in P : ek[1] <= ts

\* C23: a tick processes at most batch_limit entries, the first ones of its
\* window [last_end_ts, now] in the order of the index, so an entry of the
\* timestamp last_end_ts is inside the window; it returns the timestamp of
\* the last entry it processed, or now when it processed none, and when its
\* commit succeeds that value is the last_end_ts of the next tick.
C23_ReturnedEndTs ==
    [][/\ ReaperScans =>
            LET P == rtx'.t.w.expire
            IN /\ Cardinality(P) <= BatchLimit
               /\ P \subseteq Window
               /\ \A ek \in P : ek \notin DOMAIN rtx'.t.st.expire
               /\ \A ek \in Window \ P :
                     /\ Cardinality(P) = BatchLimit
                     /\ \A p \in P : ExpireKeyLess(p, ek)
               /\ rtx'.endTs = IF P = {} THEN clock ELSE LastTs(P)
       /\ ReaperCommits => lastExpireEndTs' = rtx.endTs
      ]_vars
\* a tick has processed batch_limit entries and returns the timestamp of the
\* last of them, and a due entry of that timestamp was cut off
C23_Witness ==
    /\ rtx.phase = "pending" /\ ~rtx.doomed
    /\ Cardinality(Processed) = BatchLimit
    /\ \E ek \in (DOMAIN store.expire) \ Processed :
          ek[1] = rtx.endTs /\ ek[1] <= clock

\* the expire-index entries a run can hold
Entries == {expireKey(k, ts) : k \in Keys, ts \in 1..(MaxClock + 1 + MaxExpire)}
\* entry ek is stored and due
Due(ek) == ek \in DOMAIN store.expire /\ ek[1] <= clock

\* C24: when the commits of the worker's ticks eventually stop failing,
\* every stored expire-index entry with ts <= now is eventually processed and
\* removed from the index.
C24_DueEntryEventuallyProcessed ==
    (<>[](~rtx.doomed)) =>
        \A ek \in Entries : Due(ek) ~> (ek \notin DOMAIN store.expire)

\* ------------------------------------------------------------------------
\* String operations that clear the expiry
\* ------------------------------------------------------------------------
\* the client's transaction commits
ClientCommits == cli.phase = "pending" /\ cli'.phase = "done" /\ cli'.committed
\* the commit clears the expiry of the String that key k holds
ClearsExpiry(k) ==
    /\ k \in DOMAIN store.meta /\ k \in DOMAIN store'.meta
    /\ store.meta[k].Type = ObjectString /\ store'.meta[k].Type = ObjectString
    /\ store'.meta[k].ID = store.meta[k].ID
    /\ store.meta[k].ExpireAt > 0
    /\ store'.meta[k].ExpireAt = 0

\* C25: when a String operation that clears an object's expiry commits, the
\* expire index holds no entry of that key with the object's id any more.
C25_ClearedExpiryLeavesNoEntry ==
    [][ClientCommits =>
         \A k \in Keys :
            ClearsExpiry(k) =>
               \A ek \in DOMAIN store'.expire :
                  ek[2] = k => store'.expire[ek] # store'.meta[k].ID
      ]_vars

\* ------------------------------------------------------------------------
\* The data of an expired sorted set
\* ------------------------------------------------------------------------
\* the ids of the stored objects
LiveIDs == {store.meta[k].ID : k \in DOMAIN store.meta}

\* C26: once the expire worker has handed the data of an object id to GC and
\* GC has run, the score index holds no entry of that id without its member
\* subkey.  doExpire hands over the data prefix of the id (gcDataKey,
\* toTikvDataKey); GC removes the keys under the prefixes handed to it.
C26_NoScoreEntryWithoutMember ==
    \A sk \in store.score :
        (sk[1] \notin LiveIDs /\ sk[1] \notin store.gc) =>
            \E dk \in MemberKeys(store, sk[1]) : dk[2] = sk[3]

\* ------------------------------------------------------------------------
\* C27: at most one node at a time runs reaper ticks: the worker of a node
\* is never inside a runExpire tick while another node holds the unexpired
\* leader lease
\* ------------------------------------------------------------------------
HeldByOther(a) ==
    /\ Unexpired(ldr.lease, clock)
    /\ ldr.lease.owner \in Nodes \ {a}

C27_NoTickUnderForeignLease ==
    \A a \in Nodes : ldr.node[a].wpc = "run" => ~HeldByOther(a)

\* ------------------------------------------------------------------------
\* C28: getIsLeader returns only after a setIsLeader call that happened
\* while the caller waited, and returns the flag as that set left it; so a
\* worker begins at most one tick per broadcast, begins none without a
\* broadcast, and does not wait forever while the refresher keeps ticking
\* ------------------------------------------------------------------------
GetIsLeaderReturns(n) ==
    /\ ldr.node[n].wpc \in {"wait", "woken"}
    /\ ldr'.node[n].wpc \in {"run", "ticker"}

C28_GetIsLeaderAfterSet ==
    /\ [][\A n \in Nodes :
            GetIsLeaderReturns(n) =>
              /\ ldr.node[n].sets >= 1
              /\ (ldr'.node[n].wpc = "run") = ldr.node[n].isLeader]_vars
    /\ [](\A n \in Nodes : ldr.node[n].ticks <= 1)
    /\ \A n \in Nodes :
         (ldr.node[n].wpc = "wait") ~> (ldr.node[n].wpc # "wait")

\* a worker runs the tick of the second of two sets that came while it waited
C28_Witness ==
    \E n \in Nodes :
      /\ ldr.node[n].wpc = "run"
      /\ ldr.node[n].sets = 2
      /\ ldr.node[n].ticks = 1
      /\ ldr.node[n].isLeader

\* ------------------------------------------------------------------------
\* C29: under every interleaving of concurrent CheckLimit calls the limits
\* of a name are read from the store at most once on the check path; a
\* CheckLimit for a name that is registered reads nothing from the store,
\* leaves the entry as it is and goes on with that entry
\* ------------------------------------------------------------------------
CheckLimitGot(c) ==
    /\ lim.gr[c].pc \in {"idle", "init"}
    /\ lim'.gr[c].pc # "init"
    /\ lim'.gr[c] # lim.gr[c]

C29_OneFetchPerName ==
    [][/\ \A name \in DOMAIN lim'.fetches : lim'.fetches[name] <= 1
       /\ \A c \in Conns :
            CheckLimitGot(c) =>
              LET name == lim'.gr[c].name
              IN /\ name \in DOMAIN lim'.limiters
                 /\ lim'.gr[c].applied = Applied(lim'.limiters[name])
                 /\ name \in DOMAIN lim.limiters =>
                      /\ lim'.limiters[name] = lim.limiters[name]
                      /\ lim'.fetches = lim.fetches]_vars

\* a connection that missed the name in its Load stands before init while
\* another connection has registered the name
C29_Witness ==
    \E c \in Conns :
      /\ lim.gr[c].pc = "init"
      /\ lim.gr[c].name \in DOMAIN lim.limiters
      /\ lim.fetches[lim.gr[c].name] = 1

\* ------------------------------------------------------------------------
\* C30: the first balance tick on a limiter after the sync loop changed its
\* limits, or made the limiter, changes neither its weight nor its share,
\* writes no status record and clears skipBalance; the tick after it, with
\* no change between, rebalances
\* ------------------------------------------------------------------------
BalanceTickEnds ==
    /\ lim.bal.pc # "idle"
    /\ lim'.bal.pc = "idle"
    /\ lim.bal.orphan.isNil

C30_SkipThenRebalance ==
    [][BalanceTickEnds =>
         LET cl == lim.limiters[lim.bal.name]
             after == lim'.limiters[lim.bal.name]
         IN /\ lim.bal.ord = 0 =>
                 /\ after.weight = cl.weight
                 /\ after.qpsLw.localPercent = cl.qpsLw.localPercent
                 /\ after.rateLw.localPercent = cl.rateLw.localPercent
                 /\ lim'.status = lim.status
                 /\ ~after.skipBalance
            /\ lim.bal.ord = 1 => lim.bal.pc = "rebalance"]_vars

\* ------------------------------------------------------------------------
\* C31: the weight rules of a balance tick
\* ------------------------------------------------------------------------
\* a tick that was not skipped has read the status records of the other
\* nodes and assigned cl.weight
TickWeighed == lim.tick.pc = "idle" /\ lim'.tick.pc = "write"

WrapperInStep(lw) ==
    /\ 0 < lw.localPercent[1]
    /\ lw.localPercent[1] <= lw.localPercent[2]
    /\ lw.limiter # NilLimiter =>
          /\ lw.globalLimit > 0
          /\ lw.limiter.burst > 0
          /\ lw.limiter.limit = LocalLimit(lw.globalLimit, lw.localPercent)

\* updateLimit was called on the wrappers of a node and changed them
SyncedWrappers(ip) ==
    /\ ip \in DOMAIN lim.titans
    /\ \/ lim'.titans[ip].qpsLw # lim.titans[ip].qpsLw
       \/ lim'.titans[ip].rateLw # lim.titans[ip].rateLw
    /\ lim'.tick = lim.tick
    /\ lim'.kv = lim.kv
    /\ ~lim'.titans[ip].isNil

\* C32: whatever updateLimit calls of the sync loop and updatePercent calls
\* of the balance loop a limiter wrapper has seen, its local percent p is in
\* (0, 1] and the rate of its token bucket, when it has one, is the stored
\* global limit times p; the wrapper has a bucket exactly when the limit and
\* the burst last given to updateLimit are both above 0, and updatePercent
\* neither makes nor drops a bucket.
C32_RateIsLimitTimesPercent ==
    /\ [](\A ip \in DOMAIN lim.titans :
             /\ WrapperInStep(lim.titans[ip].qpsLw)
             /\ WrapperInStep(lim.titans[ip].rateLw))
    /\ [][\A ip \in Titans :
             /\ SyncedWrappers(ip) =>
                   /\ lim'.titans[ip].qpsLw.limiter # NilLimiter
                         <=> Configured(getLimit(lim, TitanName, TRUE))
                   /\ lim'.titans[ip].rateLw.limiter # NilLimiter
                         <=> Configured(getLimit(lim, TitanName, FALSE))
             /\ lim.tick.pc = "write" /\ lim'.tick.pc = "idle"
                                      /\ ip \in DOMAIN lim.titans =>
                   /\ lim'.titans[ip].qpsLw.limiter = NilLimiter
                         <=> lim.titans[ip].qpsLw.limiter = NilLimiter
                   /\ lim'.titans[ip].rateLw.limiter = NilLimiter
                         <=> lim.titans[ip].rateLw.limiter = NilLimiter]_vars

\* the balance loop has halved the share of a node and the sync loop has
\* since lowered its qps limit on the bucket it kept
C32_Witness ==
    /\ "ip1" \in DOMAIN lim.titans
    /\ lim.titans["ip1"].qpsLw.localPercent = Percent(1, 2)
    /\ lim.titans["ip1"].qpsLw.globalLimit = 2
    /\ lim.titans["ip1"].qpsLw.limiter.limit = 1
    /\ lim.titans["ip1"].qpsLw.limiter.last > 1

\* ------------------------------------------------------------------------
\* C33: what a balance tick writes
\* ------------------------------------------------------------------------
\* the limiter has a qps bucket or a rate bucket
Active(cl) ==
    ~cl.isNil /\ (cl.qpsLw.limiter # NilLimiter \/ cl.rateLw.limiter # NilLimiter)

\* the tick has committed the status record of the node and given both
\* wrappers the share weight / W
TickWritten ==
    LET name == lim.bal.name
        after == lim'.limiters[name]
        newPercent == Percent(after.weight, after.weight + SumWeights(lim.peers))
    IN /\ name \in DOMAIN lim'.status
       /\ lim'.status[name] = [weight |-> after.weight,
                               qps |-> lim.bal.averageQps, time |-> clock]
       /\ after.qpsLw.localPercent = newPercent
       /\ after.rateLw.localPercent = newPercent

\* a KV call of the tick failed: no status record was committed and no share
\* was changed
TickFailed ==
    LET name == lim.bal.name
    IN /\ lim.bal.pc = "rebalance"
       /\ lim'.status = lim.status
       /\ lim'.limiters[name].qpsLw = lim.limiters[name].qpsLw
       /\ lim'.limiters[name].rateLw = lim.limiters[name].rateLw

\* C33: a balance tick on an active limiter (one with a qps bucket, a rate
\* bucket or both) whose skipBalance flag is clear either meets a KV error or
\* commits the status record of the node with the new weight, the observed
\* qps and the current time, and then gives the same share weight / W to
\* the qps wrapper and to the rate wrapper.
C33_TickWritesStatus ==
    [][BalanceTickEnds /\ lim.bal.pc # "clear"
                       /\ Active(lim.limiters[lim.bal.name])
                       /\ ~lim.limiters[lim.bal.name].skipBalance
         => TickWritten \/ TickFailed]_vars

\* ------------------------------------------------------------------------
\* C34: a balance tick that fails
\* ------------------------------------------------------------------------
\* a tick has returned after a KV call of it failed
TickFails ==
    /\ lim'.tick.pc = "idle"
    /\ lim'.tick.err # "none"
    /\ lim'.tick # lim.tick
\* the weight a node has last published; until it has published one, the
\* weight its limiter was made with
PublishedWeight(ip) ==
    IF ip \in DOMAIN lim.statuses THEN lim.statuses[ip].weight
    ELSE MAXIMUM_WEIGHT

\* C34: a balance tick in which the scan of the status records, the write of
\* the status record or the commit fails commits no status record and
\* leaves the share of both wrappers as it was, and the weight of the node
\* is the one it had before the tick, which is the weight it last published.
C34_FailedTickChangesNothing ==
    [][TickFails =>
         /\ lim'.statuses = lim.statuses
         /\ \A ip \in DOMAIN lim.titans :
               /\ lim'.titans[ip].qpsLw = lim.titans[ip].qpsLw
               /\ lim'.titans[ip].rateLw = lim.titans[ip].rateLw
               /\ lim'.titans[ip].weight = PublishedWeight(ip)]_vars

\* ------------------------------------------------------------------------
\* C35: the local limits of the nodes against the global limit
\* ------------------------------------------------------------------------
\* the nodes that hold a qps bucket
QpsNodes == {ip \in DOMAIN lim.titans : lim.titans[ip].qpsLw.limiter # NilLimiter}
\* the product of the denominators of the shares of the nodes in S, and the
\* sum of the shares as a number of parts of that product
RECURSIVE ShareDen(_)
ShareDen(S) ==
    IF S = {} THEN 1
    ELSE LET ip == CHOOSE x \in S : TRUE
         IN lim.titans[ip].qpsLw.localPercent[2] * ShareDen(S \ {ip})
RECURSIVE ShareNum(_, _)
ShareNum(S, den) ==
    IF S = {} THEN 0
    ELSE LET ip == CHOOSE x \in S : TRUE
             p == lim.titans[ip].qpsLw.localPercent
         IN p[1] * (den \div p[2]) + ShareNum(S \ {ip}, den)

\* C35: while the nodes hold the same global qps limit, the sum of their
\* local limits, global limit times local percent, is at most the global
\* limit.
C35_LocalLimitsWithinGlobal ==
    \A limit \in {lim.titans[ip].qpsLw.globalLimit : ip \in QpsNodes} :
      (\A ip \in QpsNodes : lim.titans[ip].qpsLw.globalLimit = limit) =>
          limit * ShareNum(QpsNodes, ShareDen(QpsNodes))
              <= limit * ShareDen(QpsNodes)

\* ------------------------------------------------------------------------
\* C37: the sync loop while the limits in the store stay as they are
\* ------------------------------------------------------------------------
\* C37: while the limits in the store do not change, no round of the sync
\* loop sets skipBalance on a limiter and none touches a token bucket: the
\* flag of a limiter, once a balance tick has cleared it, stays clear, and
\* the limit, the burst and the stored global limit of its wrappers change
\* only by the updatePercent of a balance tick.
C37_StableLimitsNoSkip ==
    [][\A ip \in DOMAIN lim.titans :
          /\ ~lim.titans[ip].skipBalance => ~lim'.titans[ip].skipBalance
          /\ lim.tick.pc # "write" =>
                /\ lim'.titans[ip].qpsLw = lim.titans[ip].qpsLw
                /\ lim'.titans[ip].rateLw = lim.titans[ip].rateLw]_vars

\* ------------------------------------------------------------------------
\* C36: the reservations of a command in checkLimit
\* ------------------------------------------------------------------------
\* connection c returns from waitTime on a wrapper
Reserves(c) ==
    /\ lim.gr[c].pc \in {"qpsWait", "rateWait"}
    /\ lim'.gr[c].pc \in {"qpsSleep", "rateSleep"}

\* C36: a command in checkLimit takes 1 token from the qps bucket and
\* cmdSize tokens from the rate bucket of its limiter, from each bucket the
\* limiter has, whatever its size is against the burst of the bucket, and
\* sleeps until the bucket has made up for the tokens it lacked.
C36_ReservesFromEveryBucket ==
    [][\A c \in Conns :
          Reserves(c) =>
            LET lw == lim.limiters[lim.gr[c].name][LwOf(c)]
                after == lim'.limiters[lim.gr[c].name][LwOf(c)]
                n == IF LwOf(c) = "qpsLw" THEN 1 ELSE lim.gr[c].size
                left == advance(lw.limiter, clock) - n
            IN lw.limiter # NilLimiter =>
                 /\ after.limiter.tokens = left
                 /\ left < 0 =>
                       (lim'.gr[c].wake - clock) * lw.limiter.limit >= 0 - left]_vars

\* ------------------------------------------------------------------------
\* C38: the done signal of a connection
\* ------------------------------------------------------------------------
\* C38: once Done is closed the serve loop reads at most one more command,
\* the one readCommand was waiting for when Done was closed; the select that
\* finds Done closed reads and executes nothing, closes the connection and
\* ends serve.
C38_AtMostOneCommandAfterDone ==
    /\ [](conn.lateReads <= 1)
    /\ [][/\ conn.done /\ conn'.nread # conn.nread =>
                conn.pc = "read" /\ conn'.pc \in {"serve", "returned"}
          /\ conn.done /\ conn'.executed # conn.executed =>
                conn'.nread # conn.nread
          /\ conn.done /\ conn.pc = "serve" /\ conn'.pc # "serve" =>
                conn'.closed /\ conn'.pc = "returned"]_vars

\* Done was closed while readCommand waited; the command that came then was
\* executed and answered, and the next select closed the connection with a
\* pipelined command left unread
C38_Witness ==
    /\ conn.done /\ conn.lateReads = 1
    /\ conn.executed = 1 /\ conn.out = <<OK>>
    /\ conn.closed /\ conn.pc = "returned"
    /\ conn.input # <<>>

\* ------------------------------------------------------------------------
\* C39: a ZADD after the expiry time
\* ------------------------------------------------------------------------
\* the members a committed ZADD has added since the expire_at of k passed:
\* every member of k but the one the set had when it expired
LateMembers(st) ==
    {dk \in DOMAIN st.data :
        /\ "k" \in DOMAIN st.meta
        /\ st.meta["k"].Type = ObjectZSet
        /\ dk[1] = st.meta["k"].ID
        /\ dk \notin DOMAIN ExpiringZSet.data}

\* C39: a tick of the expire worker that processes the entry of the expiry
\* that has passed leaves every member a later ZADD has written: the key
\* still holds the sorted set the member was written to, with the member.
C39_LateZAddSurvivesReaper ==
    [][ReaperCommits =>
         \A dk \in LateMembers(store) :
            /\ dk \in LateMembers(store')
            /\ store'.data[dk] = store.data[dk]]_vars

\* ------------------------------------------------------------------------
\* C40: the parts of a meta key
\* ------------------------------------------------------------------------
\* C40: splitMetaKey of the meta key NS:D:M:K gives the namespace NS, the db
\* id D and the user key K, byte for byte, for every namespace without a
\* colon, every db id and every user key, with colons or empty.
C40_SplitMetaKeyInvertsMetaKey ==
    rtx.phase = "split" =>
        /\ rtx.namespace = cfg.namespace
        /\ rtx.dbid = cfg.id
        /\ rtx.key = cfg.key

====
